---- MODULE Spec2Model ----
(***************************************************************************)
(* OptimShine: the daily decision engine (optim_judge, _optim_strategy),   *)
(* the device actions (optim_soc_check, optim_charge_battery) and the      *)
(* scheduler that fires them, modelled from src/optimshine.                *)
(*                                                                         *)
(* Time is in seconds since a midnight (UTC).  Every job the scheduler     *)
(* fires runs on its own thread; a thread is a record with a position (pc) *)
(* in the method it executes.  The attributes of the OptimShine object are *)
(* the variables, shared by all threads.                                   *)
(***************************************************************************)
EXTENDS Integers, Sequences, FiniteSets, TLC

(* ------------------------------------------------------------------ *)
(* Bounds of the model                                                   *)
(* ------------------------------------------------------------------ *)
\* number of inverters of the plant
MaxInverters == 2
\* number of judge cycles explored
MaxCycles == 2
\* number of injected failures (HTTP errors, refused logins) per behaviour
MaxFaults == 1

(* ------------------------------------------------------------------ *)
(* Program constants                                                     *)
(* ------------------------------------------------------------------ *)
Day == 86400
Hour == 3600
JudgeHour == 4
JudgeMinute == 6
SocLeadTime == 180
SocCheckPeriod == 1800
RebaseDelay == 30
JudgeRetry == 30 * 60
JudgeSocDelay == 2 * 60
SocThreshold == 50
CloudThreshold == 75
MaxTokenTtl == 86400
MisfireGrace == 1

no_charge == "no_charge"
slow_charge == "slow_charge"
normal_charge == "normal_charge"
fast_charge == "fast_charge"

\* CHARGE_MODES: mode -> target charge current in A
CHARGE_MODES ==
    [m \in {no_charge, slow_charge, normal_charge, fast_charge} |->
        CASE m = no_charge -> 1
          [] m = slow_charge -> 30
          [] m = normal_charge -> 60
          [] m = fast_charge -> 90]

(* ------------------------------------------------------------------ *)
(* Optional values: None, or a value                                     *)
(* ------------------------------------------------------------------ *)
None == << >>
Some(v) == << v >>
IsSet(x) == x # None
Val(x) == x[1]

(* ------------------------------------------------------------------ *)
(* Job ids                                                               *)
(* ------------------------------------------------------------------ *)
InverterIds == 1..MaxInverters
K_judge == "optim_judge"
K_soc == "optim_soc_check_inv"
K_charge == "optim_charge_battery_inv"
K_eod == "eod_charge_battery_inv"
DeviceKinds == {K_soc, K_charge, K_eod}

JudgeId == << K_judge, 0 >>
SocId(inv) == << K_soc, inv >>
ChargeId(inv) == << K_charge, inv >>
EodId(inv) == << K_eod, inv >>
JobIds == {JudgeId} \cup (DeviceKinds \X InverterIds)
\* a caller other than the scheduler (a test, a client of the class) runs a
\* method on its own thread
K_call == "call"
CallId(inv) == << K_call, inv >>
CallIds == {K_call} \X InverterIds
ThreadIds == JobIds \cup CallIds

AddJobAppended(js, id, run_date, mode) ==
    [js EXCEPT ![id] = Append(@, [run_date |-> run_date, mode |-> mode])]

AddJob(js, id, run_date, mode) ==
    [js EXCEPT ![id] = Some([run_date |-> run_date, mode |-> mode])]
RemoveJob(js, id) == [js EXCEPT ![id] = None]
Pending(js) == {id \in JobIds : IsSet(js[id])}

(* ------------------------------------------------------------------ *)
(* Inputs of the environment                                             *)
(* ------------------------------------------------------------------ *)
\* length of the price mapping and of the cloud forecast
MaxPrices == 2
MaxSamples == 2
\* lateness (s) with which the scheduler wakes up for a due job
MaxLate == 1

DayStart(t) == (t \div Day) * Day
JudgeInstant(t) == DayStart(t) + JudgeHour * Hour + JudgeMinute * 60

\* instants at which the process is started
StartTimes == {JudgeInstant(0) - 360}
\* lifetimes of the token the vendor API hands out
TokenLifetimes == {Hour}
\* raw battery_charge_current settings (0.1 A) an inverter starts with
InitSettings == {10}
\* battery_soc readings
SocValues == {49, 50}
\* (sunrise, sunset) answers of the sunrise API, seconds into the day
WeatherDays == {<< 3 * Hour + 1200, 17 * Hour >>, << 5 * Hour, 5 * Hour >>}
CloudValues == {10, 75}
PriceValues == {-5, 0, 5}
\* quarter-hours of the business day (Europe/Warsaw wall clock, seconds)
PriceQuarters == {900, 7 * Hour + 900}
WarsawUtcOffset == 2 * Hour

SeqsUpTo(S, n) == UNION {[1..k -> S] : k \in 1..n}
CloudForecasts == SeqsUpTo(CloudValues, MaxSamples)
PriceMappings ==
    {p \in SeqsUpTo(PriceQuarters \X PriceValues, MaxPrices) :
        \A i \in 1..(Len(p) - 1) : p[i][1] < p[i + 1][1]}

(* ------------------------------------------------------------------ *)
(* State                                                                 *)
(* ------------------------------------------------------------------ *)
VARIABLES
    now,                 \* the clock
    main,                \* the main thread: "init", optim_main's loop, the
                         \* signal handler, "exit0", "exit1"
    inverters,           \* self.inverters
    token_ttl,           \* self.token_ttl
    judge_date, soc_check_date, optim, optim_date,
    not_cloudy, weather_data, min_price, min_price_timestamp,
    setting_value,       \* self.setting_value (scratch of get_setting_value)
    device_value,        \* self.device_value (scratch of get_device_value)
    jobs,                \* the scheduler's pending jobs
    running_jobs, missed_jobs,
    threads,             \* the jobs being executed
    device,              \* the inverters' battery_charge_current settings
    cycles, faults,      \* judge cycles fired, failures injected
    strat,               \* history: the last run of _optim_strategy
    last_cb,             \* history: the last finished optim_charge_battery
    last_soc,            \* history: the last finished optim_soc_check
    chain,               \* history: per inverter, the trigger of the SOC
                         \* check _optim_strategy scheduled last (first) and
                         \* the self-reschedulings since (n)
    last_judge,          \* history: the last stage of optim_judge
    shutdown,            \* history: the signal and the halt of the scheduler
    last_setup,          \* history: the run of _shine_setup
    last_weather,        \* history: the last call of get_weather_data
    last_status,         \* history: the last call of _setting_command_status
    events               \* scheduler events emitted, listeners not yet invoked

plan == << judge_date, soc_check_date, optim, optim_date >>
factors == << not_cloudy, weather_data, min_price, min_price_timestamp >>
sched == << jobs, running_jobs, missed_jobs >>
hist == << strat, last_cb, last_soc, chain, last_judge >>
traces == << last_status, events >>
proc == << main, shutdown, last_setup, last_weather, traces >>
vars == << now, proc, inverters, token_ttl, plan, factors, setting_value,
           device_value, sched, threads, device, cycles, faults, hist >>

\* a thread: pc, the position in the method; run_date, the trigger of the
\* job it executes; ret, who called optim_charge_battery ("job": the
\* scheduler or a caller, "soc": optim_soc_check).
\* Of optim_soc_check: time_now, soc, its locals; sttl, the token_ttl it
\* found; slogin, its login_shine ("", "ok", "failed"); sreads, the requests
\* it sent to the device.
\* Of optim_charge_battery: mode; cb_time, its time_now; ttl, login, as
\* above; first, the setting it read first; reads, writes, the requests it
\* sent to the device.
Idle ==
    [pc |-> "idle", run_date |-> 0, ret |-> "",
     time_now |-> 0, sttl |-> None, slogin |-> "", soc |-> None, sreads |-> 0,
     mode |-> "", cb_time |-> 0, ttl |-> None, login |-> "", first |-> None,
     reads |-> 0, writes |-> 0]

NoStrat ==
    [ran |-> FALSE, time_now |-> 0, optim |-> FALSE, optim_date |-> None,
     soc_check_date |-> None, min_price |-> None, inverters |-> << >>,
     result |-> FALSE, jobs_before |-> [id \in JobIds |-> None],
     jobs_after |-> [id \in JobIds |-> None], optim_after |-> FALSE,
     optim_date_after |-> None, soc_check_date_after |-> None,
     calls |-> 0]
NoCb ==
    [ran |-> FALSE, inv |-> 0, mode |-> "", ret |-> "", result |-> "",
     time_now |-> 0, ttl |-> None, login |-> "", first |-> None,
     second |-> None, reads |-> 0, writes |-> 0]
NoChain == [first |-> 0, n |-> 0]
\* Of optim_judge: ending, how far it came ("factors_failed", "crashed":
\* an exception of _get_judge_factors, "planned", "strategy_failed",
\* "applied", "success"); time_now, the instant of that stage; judge_date,
\* optim, optim_date, soc_check_date, ts, jobs_before, what the stage found
\* (ts: min_price_timestamp); jobs_after, the jobs it left; sun, clouds,
\* prices, the answers of the data sources (<<>>: none).
NoJudge ==
    [ran |-> FALSE, ending |-> "", time_now |-> 0, judge_date |-> None,
     optim |-> FALSE, optim_date |-> None, soc_check_date |-> None,
     ts |-> None, jobs_before |-> [id \in JobIds |-> None],
     jobs_after |-> [id \in JobIds |-> None],
     sun |-> << >>, clouds |-> << >>, prices |-> << >>]
NoSoc ==
    [ran |-> FALSE, inv |-> 0, run_date |-> 0, time_now |-> 0, ttl |-> None,
     login |-> "", soc |-> None, result |-> "", called |-> "",
     scheduled |-> FALSE, optim_date |-> None, job_before |-> None,
     job_after |-> None, reads |-> 0, writes |-> 0]
\* Of the process: signal, a termination signal was caught; watchdog, the
\* main loop sent WATCHDOG=1; halted_by, who called scheduler.shutdown()
\* ("signal": _signal_handler, "main": optim_main); executing, running,
\* pending, the jobs being executed, self.running_jobs and the pending jobs
\* at that call.
NoShutdown ==
    [signal |-> FALSE, watchdog |-> FALSE, halted_by |-> "",
     executing |-> {}, running |-> {}, pending |-> {}]
\* Of _shine_setup: input, what the API answered; ok, whether it returned;
\* step, the step it left at; calls, the requests it sent; plant,
\* inverters, what it selected; time_now, the clock of optim_main.
NoSetup ==
    [ran |-> FALSE, ok |-> FALSE, input |-> << >>, step |-> "",
     calls |-> << >>, plant |-> "", inverters |-> << >>, time_now |-> 0]
\* Of get_weather_data: input, what the sunrise API and the forecast API
\* answered; ok, its result; raised, the exception it ended with; before,
\* self.weather_data as the call found it.
NoWeather ==
    [ran |-> FALSE, ok |-> FALSE, raised |-> "", input |-> << >>,
     before |-> None]
\* Of _setting_command_status: input, whether self.token exists, the timeout
\* argument and what the status API answers poll by poll; ok, its result;
\* requests, the status requests it sent; why, the line it logged.
NoStatus ==
    [ran |-> FALSE, ok |-> FALSE, requests |-> 0, why |-> "",
     input |-> << >>]
\* The event a listener was last invoked with, and running_jobs, missed_jobs
\* and the job store as the listener found them and as it left them.
NoEvent ==
    [kind |-> "", id |-> << >>, running |-> {}, missed |-> {},
     jobs |-> << >>, running_after |-> {}, missed_after |-> {},
     jobs_after |-> << >>]
\* Events the scheduler has emitted whose listener is still to be invoked:
\* submitted, EVENT_JOB_SUBMITTED of the scheduler thread; missed,
\* EVENT_JOB_MISSED of the pool thread; last, the event handled last.
NoEvents == [submitted |-> {}, missed |-> {}, last |-> NoEvent]

Init ==
    /\ now \in StartTimes
    /\ main = "init"
    /\ inverters = << >>
    /\ token_ttl = None
    /\ judge_date = None /\ soc_check_date = None
    /\ optim = FALSE /\ optim_date = None
    /\ not_cloudy = FALSE /\ weather_data = None
    /\ min_price = None /\ min_price_timestamp = None
    /\ setting_value = None /\ device_value = None
    /\ jobs = [id \in JobIds |-> None]
    /\ running_jobs = {} /\ missed_jobs = {}
    /\ threads = [id \in ThreadIds |-> Idle]
    /\ device \in [InverterIds -> InitSettings]
    /\ cycles = 0 /\ faults = 0
    /\ strat = NoStrat /\ last_cb = NoCb /\ last_soc = NoSoc
    /\ chain = [inv \in InverterIds |-> NoChain]
    /\ last_judge = NoJudge
    /\ shutdown = NoShutdown /\ last_setup = NoSetup
    /\ last_weather = NoWeather
    /\ last_status = NoStatus /\ events = NoEvents

(* ------------------------------------------------------------------ *)
(* Data source adapters, as far as the decision engine reads them        *)
(* ------------------------------------------------------------------ *)
\* ApiWeather._get_timestamp_hour: the hour boundary of an instant
TimestampHour(t) == (t \div Hour) * Hour
\* the get_timestamp_hour that _get_judge_factors calls
GetTimestampHour(t) == TimestampHour(t)

SunTimesNoShift(date, w) ==
    [sunrise_time |-> TimestampHour(date + w[1]),
     sunset_time |-> TimestampHour(date + w[2]) + Hour]

\* ApiWeather.get_weather_data: sunrise_time and sunset_time of the window
\* for the answer w = <<sunrise, sunset>> of the sunrise API on `date`
SunTimes(date, w) ==
    LET sunrise_hour_ts == TimestampHour(date + w[1])
        sunset_hour_ts == TimestampHour(date + w[2])
        shifted == IF sunrise_hour_ts > sunset_hour_ts
                   THEN sunset_hour_ts + Day ELSE sunset_hour_ts
    IN [sunrise_time |-> sunrise_hour_ts, sunset_time |-> shifted + Hour]

\* get_weather_data returns False (`why`: the message it logs) or ends with
\* an exception: no window
NoWindow(why, raised) == [ok |-> FALSE, why |-> why, raised |-> raised]

\* the samples kept of a polar day: low_clouds_data[:24]
PolarSamples == 24
PolarSliceWhole(data) == data

PolarSlice(data) ==
    SubSeq(data, 1, IF Len(data) < PolarSamples THEN Len(data)
                    ELSE PolarSamples)

\* `sunrise_hour_ts % interval == sunset_hour_ts % interval ==
\* first_sample_time % interval == 0`
Divisible(sunrise_hour_ts, sunset_hour_ts, first_sample_time, interval) ==
    /\ sunrise_hour_ts % interval = 0
    /\ sunset_hour_ts % interval = 0
    /\ first_sample_time % interval = 0

\* ApiWeather.get_weather_data on `date`, for the answers q of the two
\* APIs: sun_ok, the sunrise request was answered; sunrise, sunset, the
\* times of day it gave (None: empty); response, the forecast (None: no
\* answer, malformed: a key is missing, else first_timestamp, interval and
\* data)
GetWeatherData(q, date) ==
    IF ~q.sun_ok THEN NoWindow("Error during obtaining sunrise or sunset!", "")
    ELSE IF ~IsSet(q.sunrise) \/ ~IsSet(q.sunset)
    THEN NoWindow("Sunrise or sunset cannot be none!", "")
    ELSE
    LET sun == SunTimes(date, << Val(q.sunrise), Val(q.sunset) >>)
        sunrise_hour_ts == sun.sunrise_time
        sunset_hour_ts == sun.sunset_time
    IN IF ~IsSet(q.response)
       THEN NoWindow("Getting weather data failed!", "")
       ELSE IF Val(q.response).malformed
       THEN NoWindow("Getting weather data failed.", "")
       ELSE
       LET first_sample_time == Val(q.response).first_timestamp
           interval == Val(q.response).interval
           low_clouds_data == Val(q.response).data
       IN IF sunrise_hour_ts < first_sample_time
          THEN NoWindow("Wrong sunrise time!", "")
          ELSE IF low_clouds_data = << >>
          THEN NoWindow("No cloud data available!", "")
          ELSE IF q.sunrise = q.sunset
          THEN [ok |-> TRUE, why |-> "", raised |-> "",
                weather_data |->
                   [date |-> date, first_sample_time |-> first_sample_time,
                    interval |-> interval,
                    low_clouds_data |-> PolarSlice(low_clouds_data),
                    sunrise_time |-> sunrise_hour_ts,
                    sunset_time |-> sunset_hour_ts]]
          ELSE IF ~Divisible(sunrise_hour_ts, sunset_hour_ts,
                             first_sample_time, interval)
          THEN NoWindow("Timestamps must be divisible by interval", "")
          ELSE
          LET first_sample == (sunrise_hour_ts - first_sample_time)
                                 \div interval
              last_sample == (sunset_hour_ts - first_sample_time)
                                \div interval
              samples_num == last_sample - first_sample
          IN IF first_sample + samples_num > Len(low_clouds_data)
             THEN NoWindow("", "IndexError")
             ELSE [ok |-> TRUE, why |-> "", raised |-> "",
                   weather_data |->
                      [date |-> date, first_sample_time |-> sunrise_hour_ts,
                       interval |-> interval,
                       low_clouds_data |->
                          [i \in 1..samples_num |->
                              low_clouds_data[i + first_sample]],
                       sunrise_time |-> sunrise_hour_ts,
                       sunset_time |-> sunset_hour_ts]]

\* OptimShine._check_weather: the not_cloudy verdict of a cloud forecast
NotCloudyAtLeastHalf(samples) ==
    Cardinality({i \in 1..Len(samples) : samples[i] < CloudThreshold}) * 2
        >= Len(samples)

NotCloudy(samples) ==
    Cardinality({i \in 1..Len(samples) : samples[i] < CloudThreshold}) * 2
        > Len(samples)

\* Europe/Warsaw wall clock -> UTC
ToUtc(local) == local - WarsawUtcOffset

\* OptimShine._get_judge_factors: the loop over rce_prices, from entry i on
RECURSIVE PriceLoop(_, _, _, _, _)
PriceLoop(p, date, i, mp, ts) ==
    IF i > Len(p) THEN [min_price |-> mp, min_price_timestamp |-> ts]
    ELSE IF p[i][2] < mp
         THEN PriceLoop(p, date, i + 1, p[i][2],
                        Some(GetTimestampHour(ToUtc(date + p[i][1]))))
         ELSE PriceLoop(p, date, i + 1, mp, ts)

MinPrice(p, date, ts) == PriceLoop(p, date, 1, p[1][2], ts)

(* ------------------------------------------------------------------ *)
(* Decisions of the code                                                 *)
(* ------------------------------------------------------------------ *)
\* the comparison with its operands swapped
TokenExpiredSwapped(ttl, time_now) == time_now < Val(ttl)
\* `if self.token_ttl < time_now`
TokenExpired(ttl, time_now) == Val(ttl) < time_now

\* login_shine: the ttl of a token of lifetime `life`, capped at 24 h
LoginTtl(time_now, life) ==
    LET exp == time_now + life
        max_ttl == time_now + MaxTokenTtl
    IN IF max_ttl < exp THEN max_ttl ELSE exp

\* `target_charge_current = CHARGE_MODES[mode]`: KeyError for any other mode
KnownMode(mode) == mode \in DOMAIN CHARGE_MODES
\* the target taken in the unit of the raw setting (0.1 A)
TargetChargeCurrentRaw(mode) == CHARGE_MODES[mode] * 10
TargetChargeCurrent(mode) == CHARGE_MODES[mode]

\* the raw setting compared without the division by 10
SettingEqualsRaw(raw, target) == raw = target
\* `setting_charge_current == target_charge_current`, the setting being
\* self.setting_value/10 (true division)
SettingEquals(raw, target) == raw = target * 10

\* the verification left out
VerifyEqualsSkipped(raw, target) == TRUE
\* `if not setting_charge_current == target_charge_current`, after the write
VerifyEquals(raw, target) == raw = target * 10

\* the threshold taken inclusive
SocLowInclusive(soc_value) == soc_value <= SocThreshold
\* `if soc_value < 50`
SocLow(soc_value) == soc_value < SocThreshold

\* the period left out: the next check is due at once
NextSocCheckDateNoStep(time_now) == time_now
\* `next_soc_check_date = time_now + 1800`
NextSocCheckDate(time_now) == time_now + SocCheckPeriod

\* the lead taken inclusive
NextSocCheckAllowedInclusive(next_soc_check_date, od) ==
    next_soc_check_date <= od - SocLeadTime
\* `if next_soc_check_date < (self.optim_date.timestamp()-180)`
NextSocCheckAllowed(next_soc_check_date, od) ==
    next_soc_check_date < od - SocLeadTime

\* `if not self.min_price`
MinPriceNotSet(mp) == mp = None \/ Val(mp) = 0

\* `if self.min_price < 0`
ChargingMode(mp) == IF mp < 0 THEN fast_charge ELSE normal_charge

\* `if time_now > self.optim_date.timestamp()`
OptimMissed(time_now, od) == time_now > od

\* `if not self.optim`
OptimNotNeededNever(o) == FALSE

OptimNotNeeded(o) == ~o

\* `if not hasattr(self, "inverters") or not self.inverters`
NoInvertersIgnored(invs) == FALSE

NoInverters(invs) == invs = << >>

\* `if time_now > self.soc_check_date.timestamp()`: the rebased date
RebasedSocCheckDateInclusive(time_now, scd) ==
    IF time_now >= scd THEN time_now + RebaseDelay ELSE scd

RebasedSocCheckDate(time_now, scd) ==
    IF time_now > scd THEN time_now + RebaseDelay ELSE scd

\* a strategy that schedules the SOC check whatever its lead
SocCheckScheduledAlways(scd, od) == TRUE

\* `if not (soc_check_date > optim_date - 180)`
SocCheckScheduled(scd, od) == ~(scd > od - SocLeadTime)

\* `if not (sunrise_time >= sunset_time)`
EodScheduled(wd) == ~(wd.sunrise_time >= wd.sunset_time)

\* the body of `for inverter in self.inverters`, from inverter i on
RECURSIVE StrategyLoop(_, _, _, _, _, _, _)
StrategyLoop(js, invs, i, scd, od, charging_mode, wd) ==
    IF i > Len(invs) THEN js
    ELSE LET inverter == invs[i]
             j1 == IF SocCheckScheduled(scd, od)
                   THEN AddJob(js, SocId(inverter), scd, "") ELSE js
             j2 == AddJob(j1, ChargeId(inverter), od, charging_mode)
             j3 == IF EodScheduled(wd)
                   THEN AddJob(j2, EodId(inverter), wd.sunset_time,
                               slow_charge)
                   ELSE j2
         IN StrategyLoop(j3, invs, i + 1, scd, od, charging_mode, wd)

\* OptimShine._optim_strategy at time_now: its result and what it leaves
OptimStrategy(time_now) ==
    LET same == [result |-> TRUE, optim |-> optim, optim_date |-> optim_date,
                 soc_check_date |-> soc_check_date, jobs |-> jobs]
    IN IF OptimNotNeeded(optim) THEN same
       ELSE IF ~IsSet(optim_date) \/ ~IsSet(soc_check_date)
            THEN [same EXCEPT !.result = FALSE]
       ELSE IF MinPriceNotSet(min_price) THEN [same EXCEPT !.result = FALSE]
       ELSE IF NoInverters(inverters) THEN [same EXCEPT !.result = FALSE]
       ELSE IF OptimMissed(time_now, Val(optim_date))
            THEN [same EXCEPT !.optim = FALSE, !.optim_date = None,
                              !.soc_check_date = None]
       ELSE LET scd == RebasedSocCheckDate(time_now, Val(soc_check_date))
            IN [same EXCEPT
                   !.soc_check_date = Some(scd),
                   !.jobs = StrategyLoop(jobs, inverters, 1, scd,
                                         Val(optim_date),
                                         ChargingMode(Val(min_price)),
                                         Val(weather_data))]

(* ------------------------------------------------------------------ *)
(* The scheduler                                                         *)
(* ------------------------------------------------------------------ *)
Inv(id) == id[2]

\* a submitted listener that marks the id running whatever was recorded
JobRunningListenerAlways(r, m, id) ==
    [running |-> r \cup {id}, missed |-> m \ {id}]

\* OptimConfig._job_running_listener (EVENT_JOB_SUBMITTED)
JobRunningListener(r, m, id) ==
    IF id \in m THEN [running |-> r, missed |-> m \ {id}]
    ELSE [running |-> r \cup {id}, missed |-> m]

\* a missed listener that leaves the running set alone
JobMissedListenerKeeps(r, m, id) ==
    IF id \notin r THEN [running |-> r, missed |-> m \cup {id}]
    ELSE [running |-> r, missed |-> m]

\* a missed listener that records every miss
JobMissedListenerAlways(r, m, id) ==
    [running |-> r, missed |-> m \cup {id}]

\* OptimConfig._job_missed_listener (EVENT_JOB_MISSED)
JobMissedListener(r, m, id) ==
    IF id \notin r THEN [running |-> r, missed |-> m \cup {id}]
    ELSE [running |-> r \ {id}, missed |-> m]

\* a finished listener that empties the running set
JobFinishedListenerClears(r, id) == {}

\* OptimConfig._job_finished_listener and _job_error_listener
JobFinishedListener(r, id) == r \ {id}

\* the method a fired job starts in
StartOf(id, job) ==
    [Idle EXCEPT !.pc = CASE id[1] = K_judge -> "judge_factors"
                          [] id[1] = K_soc -> "soc_get"
                          [] OTHER -> "cb_get1",
                 !.mode = job.mode, !.ret = "job", !.run_date = job.run_date]

\* The main thread after scheduler.start(): optim_main at its `while` ("loop":
\* before get_jobs() or asleep, "loop_running": get_jobs() was empty, before
\* self.running_jobs is read, "loop_exit": before scheduler.shutdown()), or
\* _signal_handler, which interrupts it for good ("sig": before
\* `if self.running_jobs`, "sig_wait": in its `while`, "sig_shutdown":
\* before scheduler.shutdown()).  The scheduler runs until shutdown() is
\* called, and time passes while the main thread sleeps.
MainLoop == {"loop", "loop_running", "loop_exit"}
SignalCaught == {"sig", "sig_wait", "sig_shutdown"}
SchedulerRunning == MainLoop \cup SignalCaught
Sleeping == {"loop", "sig_wait"}

\* the jobs being executed
Executing == {id \in ThreadIds : threads[id].pc # "idle"}

PendingDates == {Val(jobs[id]).run_date : id \in Pending(jobs)}

\* The scheduler wakes up for a job whose run_date has come and hands it to
\* the pool (submitted); a run_date more than misfire_grace_time in the past
\* is reported missed instead, and a date job is gone either way.
Fire(id) ==
    /\ main \in SchedulerRunning
    /\ IsSet(jobs[id])
    /\ Val(jobs[id]).run_date <= now
    /\ threads[id].pc = "idle"
    /\ id = JudgeId => cycles < MaxCycles
    /\ jobs' = RemoveJob(jobs, id)
    /\ cycles' = IF id = JudgeId THEN cycles + 1 ELSE cycles
    /\ LET sub == JobRunningListener(running_jobs, missed_jobs, id)
       IN IF now - Val(jobs[id]).run_date <= MisfireGrace
          THEN /\ running_jobs' = sub.running
               /\ missed_jobs' = sub.missed
               /\ threads' = [threads EXCEPT ![id] = StartOf(id, Val(jobs[id]))]
          ELSE LET mis == JobMissedListener(sub.running, sub.missed, id)
               IN /\ running_jobs' = mis.running
                  /\ missed_jobs' = mis.missed
                  /\ UNCHANGED threads
    /\ UNCHANGED << now, proc, inverters, token_ttl, plan, factors,
                    setting_value, device_value, device, faults, hist >>

\* latencies of the judge's HTTP requests that bring _optim_strategy's clock
\* next to optim_date: offsets from optim_date
LatencyOffsets ==
    {0 - (SocLeadTime + RebaseDelay) - 1, 0 - (SocLeadTime + RebaseDelay),
     0 - (SocLeadTime + RebaseDelay) + 1, 1}

JudgeWaits == threads[JudgeId].pc = "judge_strategy"

LatencyInstants ==
    IF JudgeWaits /\ IsSet(optim_date) /\ IsSet(soc_check_date)
    THEN {Val(optim_date) + o : o \in LatencyOffsets}
             \cup {Val(soc_check_date) + 1}
    ELSE {}

JobInstants == {r + l : r \in PendingDates, l \in 0..MaxLate}

\* Time passes, to the next instant at which something is decided: a job's
\* run_date (the scheduler waking up to MaxLate late), or while the judge's
\* requests are under way.  A device action takes no time.
Tick ==
    /\ main \in Sleeping
    /\ \A id \in ThreadIds :
          threads[id].pc = "idle" \/ (id = JudgeId /\ JudgeWaits)
    /\ \E t \in JobInstants \cup LatencyInstants :
          /\ t > now
          /\ \A r \in PendingDates : t <= r + MaxLate
          /\ now' = t
    /\ strat' = NoStrat /\ last_cb' = NoCb /\ last_soc' = NoSoc
    /\ last_judge' = NoJudge
    /\ last_setup' = NoSetup /\ last_weather' = NoWeather
    /\ UNCHANGED traces
    /\ UNCHANGED << main, shutdown, inverters, token_ttl, plan, factors, setting_value,
                    device_value, sched, threads, device, cycles, faults,
                    chain >>

(* ------------------------------------------------------------------ *)
(* optim_main                                                            *)
(* ------------------------------------------------------------------ *)
\* today's 04:06 UTC, or tomorrow's when that has passed
FirstJudgeDateInclusive(time_now) ==
    IF time_now >= JudgeInstant(time_now)
    THEN JudgeInstant(time_now) + Day ELSE JudgeInstant(time_now)

FirstJudgeDate(time_now) ==
    IF time_now > JudgeInstant(time_now)
    THEN JudgeInstant(time_now) + Day ELSE JudgeInstant(time_now)

\* What the Shine API and the environment answer to _shine_setup:
\* login, plant_list, device_list_ok, the results of login_shine,
\* get_plant_list and get_device_list; plants_id, the names in
\* self.plants_id; shine_plant, SHINE_PLANT ("": not set); device_list,
\* self.device_list.  get_plant_list and get_device_list succeed with a
\* list that is not empty.
PlantNames == {"home", "cabin"}
ShinePlants == {"", "home", "barn"}
DeviceLists == {[i \in 1..n |-> i] : n \in 1..MaxInverters}
SetupAnswers ==
    [login : BOOLEAN, plant_list : BOOLEAN,
     plants_id : {{"home"}, PlantNames}, shine_plant : ShinePlants,
     device_list_ok : BOOLEAN, device_list : DeviceLists]

\* _shine_setup left at `step`, after the calls `calls`: sys.exit(1)
SetupExit(a, step, calls) ==
    [ran |-> TRUE, ok |-> FALSE, input |-> a, step |-> step,
     calls |-> calls, plant |-> "", inverters |-> << >>, time_now |-> 0]

\* `if not self.login_shine()`
LoginFailedIgnored(a) == FALSE

LoginFailed(a) == ~a.login

\* self.plant: the plant SHINE_PLANT names, or the only one
SelectedPlant(a) ==
    IF a.shine_plant # "" THEN a.shine_plant
    ELSE CHOOSE p \in a.plants_id : TRUE

\* _shine_setup: the step it exits at, or the plant and the inverters
ShineSetup(a) ==
    IF LoginFailed(a)
    THEN SetupExit(a, "login", << "login_shine" >>)
    ELSE IF ~a.plant_list
    THEN SetupExit(a, "plant_list", << "login_shine", "get_plant_list" >>)
    ELSE IF a.plants_id = {}
    THEN SetupExit(a, "no_plants", << "login_shine", "get_plant_list" >>)
    ELSE IF a.shine_plant # "" /\ a.shine_plant \notin a.plants_id
    THEN SetupExit(a, "plant_not_found",
                   << "login_shine", "get_plant_list" >>)
    ELSE IF a.shine_plant = "" /\ Cardinality(a.plants_id) # 1
    THEN SetupExit(a, "plant_not_set", << "login_shine", "get_plant_list" >>)
    ELSE IF ~a.device_list_ok
    THEN SetupExit(a, "device_list",
                   << "login_shine", "get_plant_list", "get_device_list" >>)
    ELSE IF a.device_list = << >>
    THEN SetupExit(a, "no_inverters",
                   << "login_shine", "get_plant_list", "get_device_list" >>)
    ELSE [ran |-> TRUE, ok |-> TRUE, input |-> a, step |-> "",
          calls |-> << "login_shine", "get_plant_list", "get_device_list" >>,
          plant |-> SelectedPlant(a), inverters |-> a.device_list,
          time_now |-> 0]

\* optim_main up to scheduler.start(), the API answering a to _shine_setup
\* with a token that lives lt
Boot(a, lt) ==
    /\ main = "init"
    /\ LET r == ShineSetup(a)
       IN /\ last_setup' = [r EXCEPT !.time_now = now]
          /\ IF ~r.ok
             THEN /\ main' = "exit1"
                  /\ token_ttl' = IF a.login THEN Some(LoginTtl(now, lt))
                                  ELSE token_ttl
                  /\ UNCHANGED << inverters, judge_date, jobs >>
             ELSE /\ token_ttl' = Some(LoginTtl(now, lt))
                  /\ inverters' = r.inverters
                  /\ judge_date' = Some(FirstJudgeDate(now))
                  /\ jobs' = AddJob(jobs, JudgeId, FirstJudgeDate(now), "")
                  /\ main' = "loop"
    /\ UNCHANGED << now, soc_check_date, optim, optim_date, factors,
                    setting_value, device_value, running_jobs, missed_jobs,
                    threads, device, cycles, faults, hist, shutdown,
                    last_weather, traces >>

OptimMain == \E a \in SetupAnswers, lt \in TokenLifetimes : Boot(a, lt)

\* WATCHDOG=1 and time.sleep(5)
Watchdog == [shutdown EXCEPT !.watchdog = TRUE]

\* scheduler.shutdown(), called by `by`: no job is fired any more, and the
\* call returns when the pool has finished the jobs it executes (wait=True)
Halt(by) ==
    [shutdown EXCEPT !.halted_by = by, !.executing = Executing,
                     !.running = running_jobs, !.pending = Pending(jobs)]

\* `while self.scheduler.get_jobs() or self.running_jobs`: the left operand
MainGetJobs ==
    /\ main = "loop"
    /\ IF Pending(jobs) # {}
       THEN main' = "loop" /\ shutdown' = Watchdog
       ELSE main' = "loop_running" /\ UNCHANGED shutdown
    /\ UNCHANGED << now, inverters, token_ttl, plan, factors, setting_value,
                    device_value, sched, threads, device, cycles, faults,
                    hist, last_setup, last_weather, traces >>

\* the right operand, read when the left one was empty
MainRunningJobs ==
    /\ main = "loop_running"
    /\ IF running_jobs # {}
       THEN main' = "loop" /\ shutdown' = Watchdog
       ELSE main' = "loop_exit" /\ UNCHANGED shutdown
    /\ UNCHANGED << now, inverters, token_ttl, plan, factors, setting_value,
                    device_value, sched, threads, device, cycles, faults,
                    hist, last_setup, last_weather, traces >>

\* self.scheduler.shutdown() after the loop
MainShutdown ==
    /\ main = "loop_exit"
    /\ shutdown' = Halt("main")
    /\ main' = "shutdown1"
    /\ UNCHANGED << now, inverters, token_ttl, plan, factors, setting_value,
                    device_value, sched, threads, device, cycles, faults,
                    hist, last_setup, last_weather, traces >>

\* "No jobs scheduled. Exiting...", sys.exit(1)
MainExit ==
    /\ main = "shutdown1"
    /\ Executing = {}
    /\ main' = "exit1"
    /\ UNCHANGED << now, inverters, token_ttl, plan, factors, setting_value,
                    device_value, sched, threads, device, cycles, faults,
                    hist, shutdown, last_setup, last_weather, traces >>

(* ------------------------------------------------------------------ *)
(* _signal_handler                                                       *)
(* ------------------------------------------------------------------ *)
\* SIGINT or SIGTERM reaches the process while the scheduler runs: the
\* handler takes over the main thread
Signal ==
    /\ main \in MainLoop
    /\ main' = "sig"
    /\ shutdown' = [shutdown EXCEPT !.signal = TRUE]
    /\ UNCHANGED << now, inverters, token_ttl, plan, factors, setting_value,
                    device_value, sched, threads, device, cycles, faults,
                    hist, last_setup, last_weather, traces >>

\* `if self.running_jobs`
SignalRunningJobs ==
    /\ main = "sig"
    /\ main' = IF running_jobs # {} THEN "sig_wait" ELSE "sig_shutdown"
    /\ UNCHANGED << now, inverters, token_ttl, plan, factors, setting_value,
                    device_value, sched, threads, device, cycles, faults,
                    hist, shutdown, last_setup, last_weather, traces >>

\* `while self.running_jobs: time.sleep(5)` finds the set empty
SignalDrained ==
    /\ main = "sig_wait"
    /\ running_jobs = {}
    /\ main' = "sig_shutdown"
    /\ UNCHANGED << now, inverters, token_ttl, plan, factors, setting_value,
                    device_value, sched, threads, device, cycles, faults,
                    hist, shutdown, last_setup, last_weather, traces >>

\* self.scheduler.shutdown()
SignalShutdown ==
    /\ main = "sig_shutdown"
    /\ shutdown' = Halt("signal")
    /\ main' = "shutdown0"
    /\ UNCHANGED << now, inverters, token_ttl, plan, factors, setting_value,
                    device_value, sched, threads, device, cycles, faults,
                    hist, last_setup, last_weather, traces >>

\* "Scheduler shutdown was successful, exiting", sys.exit(0)
SignalExit ==
    /\ main = "shutdown0"
    /\ Executing = {}
    /\ main' = "exit0"
    /\ UNCHANGED << now, inverters, token_ttl, plan, factors, setting_value,
                    device_value, sched, threads, device, cycles, faults,
                    hist, shutdown, last_setup, last_weather, traces >>

(* ------------------------------------------------------------------ *)
(* optim_judge                                                           *)
(* ------------------------------------------------------------------ *)
\* the job leaves the pool: executed or errored, the listener is the same
ThreadEnds(id) ==
    /\ threads' = [threads EXCEPT ![id] = Idle]
    /\ running_jobs' = JobFinishedListener(running_jobs, id)

\* the stage of optim_judge that ends in this step, for the history
JudgeStage(ending, jobs_after, sun, clouds, prices) ==
    [ran |-> TRUE, ending |-> ending, time_now |-> now,
     judge_date |-> judge_date, optim |-> optim, optim_date |-> optim_date,
     soc_check_date |-> soc_check_date, ts |-> min_price_timestamp,
     jobs_before |-> jobs, jobs_after |-> jobs_after,
     sun |-> sun, clouds |-> clouds, prices |-> prices]

\* scheduler.add_job(self.optim_judge, ..., id="optim_judge",
\* replace_existing=True)
JudgeJobDropped(js, run_date) == js

JudgeJob(js, run_date) == AddJob(js, JudgeId, run_date, "")

\* `self.judge_date += timedelta(minutes=30)`
RetryJudgeDateSame(jd) == jd

RetryJudgeDate(jd) == jd + JudgeRetry

\* `if not self._get_judge_factors()`: back off and raise
JudgeRetryLater(sun, clouds) ==
    LET js == JudgeJob(jobs, RetryJudgeDate(Val(judge_date)))
    IN /\ judge_date' = Some(RetryJudgeDate(Val(judge_date)))
       /\ jobs' = js
       /\ ThreadEnds(JudgeId)
       /\ last_judge' = JudgeStage("factors_failed", js, sun, clouds, << >>)
       /\ UNCHANGED << soc_check_date, optim, optim_date >>

\* the soc_check_date optim_judge derives from judge_date and the sunrise
JudgeSocCheckDateNoDelay(jd, wd) ==
    IF jd > wd.sunrise_time THEN jd ELSE wd.sunrise_time

JudgeSocCheckDate(jd, wd) ==
    IF jd > wd.sunrise_time THEN jd + JudgeSocDelay ELSE wd.sunrise_time

\* `if self.not_cloudy:` the plan of the day
JudgePlanAlways(nc, ts, scd) ==
    [optim |-> TRUE, optim_date |-> ts, soc_check_date |-> Some(scd)]

JudgePlan(nc, ts, scd) ==
    IF nc
    THEN [optim |-> TRUE, optim_date |-> ts, soc_check_date |-> Some(scd)]
    ELSE [optim |-> FALSE, optim_date |-> None, soc_check_date |-> None]

\* _get_judge_factors, then the plan of the day
JudgeFactors ==
    /\ threads[JudgeId].pc = "judge_factors"
    /\ LET date == DayStart(now)
       IN \/ \* get_weather_data fails
             /\ faults < MaxFaults
             /\ faults' = faults + 1
             /\ not_cloudy' = FALSE
             /\ UNCHANGED << weather_data, min_price, min_price_timestamp >>
             /\ JudgeRetryLater(<< >>, << >>)
          \/ \E w \in WeatherDays, c \in CloudForecasts :
             /\ not_cloudy' = NotCloudy(c)
             /\ weather_data' = Some(SunTimes(date, w))
             /\ \/ \* get_pse_data fails
                   /\ faults < MaxFaults
                   /\ faults' = faults + 1
                   /\ UNCHANGED << min_price, min_price_timestamp >>
                   /\ JudgeRetryLater(w, c)
                \/ \E p \in PriceMappings :
                   LET f == MinPrice(p, date, min_price_timestamp)
                       pl == JudgePlan(NotCloudy(c), f.min_price_timestamp,
                                       JudgeSocCheckDate(Val(judge_date),
                                                         SunTimes(date, w)))
                   IN /\ min_price' = Some(f.min_price)
                      /\ min_price_timestamp' = f.min_price_timestamp
                      /\ UNCHANGED << faults, judge_date, jobs >>
                      /\ IF f.min_price_timestamp = None
                         THEN \* self.min_price_timestamp: AttributeError
                              /\ ThreadEnds(JudgeId)
                              /\ last_judge' =
                                    JudgeStage("crashed", jobs, w, c, p)
                              /\ UNCHANGED << soc_check_date, optim,
                                              optim_date >>
                         ELSE /\ threads' = [threads EXCEPT
                                    ![JudgeId].pc = "judge_strategy"]
                              /\ optim' = pl.optim
                              /\ optim_date' = pl.optim_date
                              /\ soc_check_date' = pl.soc_check_date
                              /\ last_judge' =
                                    JudgeStage("planned", jobs, w, c, p)
                              /\ UNCHANGED running_jobs
    /\ UNCHANGED << now, proc, inverters, token_ttl, setting_value,
                    device_value, missed_jobs, device, cycles, strat,
                    last_cb, last_soc, chain >>

\* what _optim_strategy at this instant leaves in the history
StratSummary(r) ==
    [ran |-> TRUE, time_now |-> now, optim |-> optim,
     optim_date |-> optim_date, soc_check_date |-> soc_check_date,
     min_price |-> min_price, inverters |-> inverters,
     result |-> r.result, jobs_before |-> jobs, jobs_after |-> r.jobs,
     optim_after |-> r.optim, optim_date_after |-> r.optim_date,
     soc_check_date_after |-> r.soc_check_date,
     calls |-> strat.calls + 1]

\* _optim_strategy runs: the plan, the jobs and the history it leaves
ApplyStrategy(r) ==
    /\ optim' = r.optim
    /\ optim_date' = r.optim_date
    /\ soc_check_date' = r.soc_check_date
    /\ jobs' = r.jobs
    /\ strat' = StratSummary(r)
    /\ chain' = [inv \in InverterIds |->
                    IF r.jobs[SocId(inv)] # jobs[SocId(inv)]
                    THEN [first |-> Val(r.jobs[SocId(inv)]).run_date,
                          n |-> 0]
                    ELSE chain[inv]]

\* `if not self._optim_strategy(): raise RuntimeError`
JudgeStrategy ==
    /\ threads[JudgeId].pc = "judge_strategy"
    /\ LET r == OptimStrategy(now)
       IN /\ ApplyStrategy(r)
          /\ IF r.result
             THEN /\ threads' = [threads EXCEPT
                        ![JudgeId].pc = "judge_resched"]
                  /\ last_judge' = JudgeStage("applied", r.jobs,
                                              last_judge.sun, << >>, << >>)
                  /\ UNCHANGED running_jobs
             ELSE /\ ThreadEnds(JudgeId)
                  /\ last_judge' = JudgeStage("strategy_failed", r.jobs,
                                              last_judge.sun, << >>, << >>)
    /\ UNCHANGED << now, proc, inverters, token_ttl, judge_date, factors,
                    setting_value, device_value, missed_jobs, device, cycles,
                    faults, last_cb, last_soc >>

\* tomorrow's 04:06 UTC
NextJudgeDateToday(time_now) == JudgeInstant(time_now)

NextJudgeDate(time_now) == JudgeInstant(time_now) + Day

\* the judge re-schedules itself and returns
JudgeResched ==
    /\ threads[JudgeId].pc = "judge_resched"
    /\ LET js == JudgeJob(jobs, NextJudgeDate(now))
       IN /\ judge_date' = Some(NextJudgeDate(now))
          /\ jobs' = js
          /\ last_judge' = JudgeStage("success", js, << >>, << >>, << >>)
    /\ ThreadEnds(JudgeId)
    /\ UNCHANGED << now, proc, inverters, token_ttl, soc_check_date, optim,
                    optim_date, factors, setting_value, device_value,
                    missed_jobs, device, cycles, faults, strat, last_cb,
                    last_soc, chain >>

(* ------------------------------------------------------------------ *)
(* optim_charge_battery and optim_soc_check                              *)
(* ------------------------------------------------------------------ *)
\* what a finished optim_soc_check leaves in the history
SocSummary(id, t, result, scheduled, job_after) ==
    [ran |-> TRUE, inv |-> Inv(id), run_date |-> t.run_date,
     time_now |-> t.time_now, ttl |-> t.sttl, login |-> t.slogin,
     soc |-> t.soc, result |-> result,
     called |-> IF t.ret = "soc" THEN t.mode ELSE "",
     scheduled |-> scheduled, optim_date |-> optim_date,
     job_before |-> jobs[SocId(Inv(id))], job_after |-> job_after,
     reads |-> t.sreads + t.reads, writes |-> t.writes]

\* optim_soc_check returns or raises, in a step that schedules nothing
SocEnd(id, t, result) ==
    /\ ThreadEnds(id)
    /\ last_soc' = SocSummary(id, t, result, FALSE, jobs[SocId(Inv(id))])

\* optim_charge_battery returns True or raises `result`, t being its thread.
\* Called by optim_soc_check, an exception goes on through it, True after
\* no_charge ends it, and True after slow_charge leads to the re-scheduling.
CbEnd(id, t, result, second) ==
    /\ last_cb' = [ran |-> TRUE, inv |-> Inv(id), mode |-> t.mode,
                   ret |-> t.ret, result |-> result, time_now |-> t.cb_time,
                   ttl |-> t.ttl, login |-> t.login, first |-> t.first,
                   second |-> second, reads |-> t.reads, writes |-> t.writes]
    /\ IF t.ret = "soc" /\ result = "True" /\ t.mode = slow_charge
       THEN /\ threads' = [threads EXCEPT
                  ![id] = [t EXCEPT !.pc = "soc_resched"]]
            /\ UNCHANGED << running_jobs, last_soc >>
       ELSE /\ ThreadEnds(id)
            /\ last_soc' = IF t.ret = "soc"
                           THEN SocSummary(id, t, result, FALSE,
                                           jobs[SocId(Inv(id))])
                           ELSE last_soc

CbIds == {id \in ThreadIds : id[1] \in DeviceKinds \cup {K_call}}
SocIds == {id \in JobIds : id[1] = K_soc}

\* lines 195-212: the token, the mode, the first get_setting_value
CbGet1(id) ==
    /\ threads[id].pc = "cb_get1"
    /\ LET expired == TokenExpired(token_ttl, now)
           t0 == [threads[id] EXCEPT !.cb_time = now, !.ttl = token_ttl,
                                     !.login = "", !.reads = 0, !.writes = 0,
                                     !.first = None]
           t == [t0 EXCEPT !.login = IF expired THEN "ok" ELSE ""]
       IN \/ \* login_shine fails
             /\ expired
             /\ faults < MaxFaults
             /\ faults' = faults + 1
             /\ CbEnd(id, [t0 EXCEPT !.login = "failed"], "RuntimeError",
                      None)
             /\ UNCHANGED << token_ttl, setting_value >>
          \/ \E life \in (IF expired THEN TokenLifetimes ELSE {0}) :
             /\ token_ttl' = IF expired THEN Some(LoginTtl(now, life))
                             ELSE token_ttl
             /\ IF ~KnownMode(t.mode)
                THEN /\ CbEnd(id, t, "AttributeError", None)
                     /\ UNCHANGED << setting_value, faults >>
                ELSE \/ \* get_setting_value fails
                        /\ faults < MaxFaults
                        /\ faults' = faults + 1
                        /\ CbEnd(id, [t EXCEPT !.reads = 1], "RuntimeError",
                                 None)
                        /\ UNCHANGED setting_value
                     \/ /\ setting_value' = Some(device[Inv(id)])
                        /\ threads' = [threads EXCEPT
                              ![id] = [t EXCEPT !.pc = "cb_cmp1",
                                                !.reads = 1]]
                        /\ UNCHANGED << faults, running_jobs, last_cb,
                                        last_soc >>
    /\ UNCHANGED << now, proc, inverters, plan, factors, device_value, jobs,
                    missed_jobs, device, cycles, strat,
                    chain, last_judge >>

\* lines 214-223: the setting read, compared with the target
CbCmp1(id) ==
    /\ threads[id].pc = "cb_cmp1"
    /\ LET t == threads[id]
       IN IF setting_value = None
          THEN \* None/10: TypeError
               /\ CbEnd(id, t, "TypeError", None)
               /\ UNCHANGED setting_value
          ELSE LET t1 == [t EXCEPT !.first = setting_value]
               IN /\ setting_value' = None
                  /\ IF SettingEquals(Val(setting_value),
                                    TargetChargeCurrent(t.mode))
                     THEN CbEnd(id, t1, "True", None)
                     ELSE /\ threads' = [threads EXCEPT
                                ![id] = [t1 EXCEPT !.pc = "cb_set"]]
                          /\ UNCHANGED << running_jobs, last_cb, last_soc >>
    /\ UNCHANGED << now, proc, inverters, token_ttl, plan, factors,
                    device_value, jobs, missed_jobs, device, cycles, faults,
                    strat,
                    chain, last_judge >>

\* lines 225-227: set_charge_current.  The command is accepted (ok) or not,
\* and the inverter takes the value over (applied) or not.
CbSet(id) ==
    /\ threads[id].pc = "cb_set"
    /\ LET t == [threads[id] EXCEPT !.writes = 1]
       IN \E ok \in BOOLEAN, applied \in BOOLEAN :
             /\ (ok /\ applied) \/ faults < MaxFaults
             /\ faults' = IF ok /\ applied THEN faults ELSE faults + 1
             /\ device' = IF applied
                          THEN [device EXCEPT
                                   ![Inv(id)] = TargetChargeCurrent(t.mode) * 10]
                          ELSE device
             /\ IF ok
                THEN /\ threads' = [threads EXCEPT
                           ![id] = [t EXCEPT !.pc = "cb_get2"]]
                     /\ UNCHANGED << running_jobs, last_cb, last_soc >>
                ELSE CbEnd(id, t, "RuntimeError", None)
    /\ UNCHANGED << now, proc, inverters, token_ttl, plan, factors,
                    setting_value, device_value, jobs, missed_jobs, cycles,
                    strat,
                    chain, last_judge >>

\* lines 229-232: the second get_setting_value
CbGet2(id) ==
    /\ threads[id].pc = "cb_get2"
    /\ LET t == [threads[id] EXCEPT !.reads = 2]
       IN \/ /\ faults < MaxFaults
             /\ faults' = faults + 1
             /\ CbEnd(id, t, "RuntimeError", None)
             /\ UNCHANGED setting_value
          \/ /\ setting_value' = Some(device[Inv(id)])
             /\ threads' = [threads EXCEPT ![id] = [t EXCEPT !.pc = "cb_cmp2"]]
             /\ UNCHANGED << faults, running_jobs, last_cb, last_soc >>
    /\ UNCHANGED << now, proc, inverters, token_ttl, plan, factors,
                    device_value, jobs, missed_jobs, device, cycles, strat,
                    chain, last_judge >>

\* lines 234-245: the setting read back, compared with the target
CbCmp2(id) ==
    /\ threads[id].pc = "cb_cmp2"
    /\ LET t == threads[id]
       IN IF setting_value = None
          THEN /\ CbEnd(id, t, "TypeError", None)
               /\ UNCHANGED setting_value
          ELSE /\ setting_value' = None
               /\ IF VerifyEquals(Val(setting_value),
                                TargetChargeCurrent(t.mode))
                  THEN CbEnd(id, t, "True", setting_value)
                  ELSE CbEnd(id, t, "RuntimeError", setting_value)
    /\ UNCHANGED << now, proc, inverters, token_ttl, plan, factors,
                    device_value, jobs, missed_jobs, device, cycles, faults,
                    strat,
                    chain, last_judge >>

\* lines 264-274: the token, get_device_value
SocGet(id) ==
    /\ threads[id].pc = "soc_get"
    /\ LET expired == TokenExpired(token_ttl, now)
           t0 == [threads[id] EXCEPT !.time_now = now, !.sttl = token_ttl]
           t == [t0 EXCEPT !.slogin = IF expired THEN "ok" ELSE ""]
       IN \/ \* login_shine fails
             /\ expired
             /\ faults < MaxFaults
             /\ faults' = faults + 1
             /\ SocEnd(id, [t0 EXCEPT !.slogin = "failed"], "RuntimeError")
             /\ UNCHANGED << token_ttl, device_value >>
          \/ \E life \in (IF expired THEN TokenLifetimes ELSE {0}) :
             /\ token_ttl' = IF expired THEN Some(LoginTtl(now, life))
                             ELSE token_ttl
             /\ \/ \* get_device_value fails
                   /\ faults < MaxFaults
                   /\ faults' = faults + 1
                   /\ SocEnd(id, [t EXCEPT !.sreads = 1], "RuntimeError")
                   /\ UNCHANGED device_value
                \/ \E soc \in SocValues :
                   /\ device_value' = Some(soc)
                   /\ threads' = [threads EXCEPT
                         ![id] = [t EXCEPT !.pc = "soc_cmp", !.sreads = 1]]
                   /\ UNCHANGED << faults, running_jobs, last_soc >>
    /\ UNCHANGED << now, proc, inverters, plan, factors, setting_value, jobs,
                    missed_jobs, device, cycles, strat, last_cb,
                    chain, last_judge >>

\* lines 276-287: the SOC read, and the call of optim_charge_battery
SocCmp(id) ==
    /\ threads[id].pc = "soc_cmp"
    /\ LET t == threads[id]
       IN IF device_value = None
          THEN \* float(None): TypeError
               /\ SocEnd(id, t, "TypeError")
               /\ UNCHANGED device_value
          ELSE /\ device_value' = None
               /\ threads' = [threads EXCEPT
                     ![id] = [t EXCEPT
                        !.soc = device_value,
                        !.pc = "cb_get1",
                        !.ret = "soc",
                        !.mode = IF SocLow(Val(device_value))
                                 THEN slow_charge ELSE no_charge]]
               /\ UNCHANGED << running_jobs, last_soc >>
    /\ UNCHANGED << now, proc, inverters, token_ttl, plan, factors,
                    setting_value, jobs, missed_jobs, device, cycles, faults,
                    strat, last_cb,
                    chain, last_judge >>

\* lines 289-302: the next SOC check
SocResched(id) ==
    /\ threads[id].pc = "soc_resched"
    /\ LET t == threads[id]
           next_soc_check_date == NextSocCheckDate(t.time_now)
       IN IF optim_date = None
          THEN \* None.timestamp(): AttributeError
               /\ SocEnd(id, t, "AttributeError")
               /\ UNCHANGED << soc_check_date, jobs, chain >>
          ELSE IF NextSocCheckAllowed(next_soc_check_date, Val(optim_date))
          THEN /\ soc_check_date' = Some(next_soc_check_date)
               /\ jobs' = AddJob(jobs, SocId(Inv(id)), next_soc_check_date, "")
               /\ chain' = [chain EXCEPT ![Inv(id)].n = @ + 1]
               /\ ThreadEnds(id)
               /\ last_soc' = SocSummary(id, t, "True", TRUE,
                                 Some([run_date |-> next_soc_check_date,
                                       mode |-> ""]))
          ELSE /\ SocEnd(id, t, "True")
               /\ UNCHANGED << soc_check_date, jobs, chain >>
    /\ UNCHANGED << now, proc, inverters, token_ttl, judge_date, optim,
                    optim_date, factors, setting_value, device_value,
                    missed_jobs, device, cycles, faults, strat, last_cb,
                    last_judge >>

(* ------------------------------------------------------------------ *)
(* The program                                                           *)
(* ------------------------------------------------------------------ *)
Next ==
    \/ OptimMain
    \/ Tick
    \/ \E id \in JobIds : Fire(id)
    \/ JudgeFactors
    \/ JudgeStrategy
    \/ JudgeResched
    \/ \E id \in SocIds : SocGet(id) \/ SocCmp(id) \/ SocResched(id)
    \/ \E id \in CbIds :
          CbGet1(id) \/ CbCmp1(id) \/ CbSet(id) \/ CbGet2(id) \/ CbCmp2(id)

Spec == Init /\ [][Next]_vars

(* ------------------------------------------------------------------ *)
(* optim_charge_battery called directly                                  *)
(* ------------------------------------------------------------------ *)
\* The method is public: a caller hands it any mode, and waits for it to
\* return.  The object is set up (logged in, inverters listed) and its
\* scheduler is not started.
ApiModes == DOMAIN CHARGE_MODES \cup {"test_mode", "SLOW_CHARGE"}
ApiSettings == {10, 300}

InitApi ==
    /\ now \in StartTimes
    /\ main = "api"
    /\ inverters = [i \in 1..MaxInverters |-> i]
    /\ token_ttl \in {Some(now - 1), Some(now), Some(now + Hour)}
    /\ judge_date = None /\ soc_check_date = None
    /\ optim = FALSE /\ optim_date = None
    /\ not_cloudy = FALSE /\ weather_data = None
    /\ min_price = None /\ min_price_timestamp = None
    /\ setting_value = None /\ device_value = None
    /\ jobs = [id \in JobIds |-> None]
    /\ running_jobs = {} /\ missed_jobs = {}
    /\ threads = [id \in ThreadIds |-> Idle]
    /\ device \in [InverterIds -> ApiSettings]
    /\ cycles = 0 /\ faults = 0
    /\ strat = NoStrat /\ last_cb = NoCb /\ last_soc = NoSoc
    /\ chain = [inv \in InverterIds |-> NoChain]
    /\ last_judge = NoJudge
    /\ shutdown = NoShutdown /\ last_setup = NoSetup
    /\ last_weather = NoWeather
    /\ last_status = NoStatus /\ events = NoEvents

CallChargeBattery(inv, mode) ==
    /\ main = "api"
    /\ \A id \in ThreadIds : threads[id].pc = "idle"
    /\ threads' = [threads EXCEPT
          ![CallId(inv)] = [Idle EXCEPT !.pc = "cb_get1", !.mode = mode,
                                        !.ret = "job"]]
    /\ UNCHANGED << now, proc, inverters, token_ttl, plan, factors,
                    setting_value, device_value, sched, device, cycles,
                    faults, hist >>

NextApi ==
    \/ \E inv \in InverterIds, mode \in ApiModes : CallChargeBattery(inv, mode)
    \/ \E id \in CallIds :
          CbGet1(id) \/ CbCmp1(id) \/ CbSet(id) \/ CbGet2(id) \/ CbCmp2(id)

SpecApi == InitApi /\ [][NextApi]_vars

(* ------------------------------------------------------------------ *)
(* The SOC checks of a plan                                              *)
(* ------------------------------------------------------------------ *)
\* The state in which a judge cycle leaves the scheduler running, for a
\* plant of one inverter, whatever the time _optim_strategy ran at: the
\* plan's optim_date is on the hour, its soc_check_date was rebased to 30 s
\* after _optim_strategy's clock, and the lead of the one before the other
\* is any of SocLeads.
SocOptimDate == 7 * Hour
SocLeads ==
    {SocLeadTime, SocLeadTime + 1,
     SocCheckPeriod + SocLeadTime, SocCheckPeriod + SocLeadTime + 1,
     2 * SocCheckPeriod + SocLeadTime + 1,
     3 * SocCheckPeriod + SocLeadTime + 2}

InitSoc ==
    \E lead \in SocLeads, mp \in PriceValues \ {0}, w \in WeatherDays :
       LET od == SocOptimDate
           scd == od - lead
           wd == SunTimes(DayStart(od), w)
           none == [id \in JobIds |-> None]
       IN /\ now = scd - RebaseDelay
          /\ main = "loop"
          /\ inverters = << 1 >>
          /\ token_ttl \in {Some(LoginTtl(JudgeInstant(od) - 360, life)) :
                                life \in TokenLifetimes}
          /\ judge_date = Some(JudgeInstant(od) + Day)
          /\ soc_check_date = Some(scd)
          /\ optim = TRUE
          /\ optim_date = Some(od)
          /\ not_cloudy = TRUE
          /\ weather_data = Some(wd)
          /\ min_price = Some(mp)
          /\ min_price_timestamp = Some(od)
          /\ setting_value = None /\ device_value = None
          /\ jobs = AddJob(StrategyLoop(none, << 1 >>, 1, scd, od,
                                        ChargingMode(mp), wd),
                           JudgeId, JudgeInstant(od) + Day, "")
          /\ running_jobs = {} /\ missed_jobs = {}
          /\ threads = [id \in ThreadIds |-> Idle]
          /\ device \in [InverterIds -> InitSettings]
          /\ cycles = MaxCycles /\ faults = 0
          /\ strat = NoStrat /\ last_cb = NoCb /\ last_soc = NoSoc
          /\ last_judge = NoJudge
          /\ shutdown = NoShutdown /\ last_setup = NoSetup
          /\ last_weather = NoWeather
          /\ last_status = NoStatus /\ events = NoEvents
          /\ chain = [inv \in InverterIds |->
                         IF inv = 1 THEN [first |-> scd, n |-> 0]
                         ELSE NoChain]

NextSoc ==
    \/ Tick
    \/ \E id \in JobIds : Fire(id)
    \/ \E id \in SocIds : SocGet(id) \/ SocCmp(id) \/ SocResched(id)
    \/ \E id \in CbIds :
          CbGet1(id) \/ CbCmp1(id) \/ CbSet(id) \/ CbGet2(id) \/ CbCmp2(id)

SpecSoc == InitSoc /\ [][NextSoc]_vars

(* ------------------------------------------------------------------ *)
(* Harness: the process of a plant with one inverter, to its exit       *)
(* ------------------------------------------------------------------ *)
\* optim_main has set up a plant with a single inverter, registered the
\* first judge and started the scheduler: the main loop, the jobs and a
\* termination signal at any moment from there on
InitRun ==
    /\ now \in StartTimes
    /\ main = "loop"
    /\ inverters = << 1 >>
    /\ \E lt \in TokenLifetimes : token_ttl = Some(LoginTtl(now, lt))
    /\ judge_date = Some(FirstJudgeDate(now))
    /\ soc_check_date = None
    /\ optim = FALSE /\ optim_date = None
    /\ not_cloudy = FALSE /\ weather_data = None
    /\ min_price = None /\ min_price_timestamp = None
    /\ setting_value = None /\ device_value = None
    /\ jobs = AddJob([id \in JobIds |-> None], JudgeId,
                     FirstJudgeDate(now), "")
    /\ running_jobs = {} /\ missed_jobs = {}
    /\ threads = [id \in ThreadIds |-> Idle]
    /\ device \in [InverterIds -> InitSettings]
    /\ cycles = MaxCycles - 1 /\ faults = 0
    /\ strat = NoStrat /\ last_cb = NoCb /\ last_soc = NoSoc
    /\ chain = [inv \in InverterIds |-> NoChain]
    /\ last_judge = NoJudge
    /\ shutdown = NoShutdown /\ last_setup = NoSetup
    /\ last_weather = NoWeather
    /\ last_status = NoStatus /\ events = NoEvents

NextRun ==
    \/ Tick
    \/ \E id \in JobIds : Fire(id)
    \/ JudgeFactors
    \/ JudgeStrategy
    \/ JudgeResched
    \/ \E id \in SocIds : SocGet(id) \/ SocCmp(id) \/ SocResched(id)
    \/ \E id \in CbIds :
          CbGet1(id) \/ CbCmp1(id) \/ CbSet(id) \/ CbGet2(id) \/ CbCmp2(id)
    \/ MainGetJobs
    \/ MainRunningJobs
    \/ MainShutdown
    \/ MainExit
    \/ Signal
    \/ SignalRunningJobs
    \/ SignalDrained
    \/ SignalShutdown
    \/ SignalExit

SpecRun == InitRun /\ [][NextRun]_vars

(* ------------------------------------------------------------------ *)
(* Harness: optim_main started at any time of the day                    *)
(* ------------------------------------------------------------------ *)
\* optim_main called on a new object, with login_shine, get_plant_list and
\* get_device_list answering as the tests make them (an empty plants_id or
\* device_list after a successful call included), around 04:06 UTC
BootTimes ==
    {0, JudgeInstant(0) - 1, JudgeInstant(0), JudgeInstant(0) + 1, Day - 1}
SetupMocks ==
    [login : BOOLEAN, plant_list : BOOLEAN,
     plants_id : {{}, {"home"}, PlantNames}, shine_plant : ShinePlants,
     device_list_ok : BOOLEAN, device_list : {<< >>} \cup DeviceLists]

InitBoot ==
    /\ now \in BootTimes
    /\ main = "init"
    /\ inverters = << >>
    /\ token_ttl = None
    /\ judge_date = None /\ soc_check_date = None
    /\ optim = FALSE /\ optim_date = None
    /\ not_cloudy = FALSE /\ weather_data = None
    /\ min_price = None /\ min_price_timestamp = None
    /\ setting_value = None /\ device_value = None
    /\ jobs = [id \in JobIds |-> None]
    /\ running_jobs = {} /\ missed_jobs = {}
    /\ threads = [id \in ThreadIds |-> Idle]
    /\ device \in [InverterIds -> InitSettings]
    /\ cycles = 0 /\ faults = 0
    /\ strat = NoStrat /\ last_cb = NoCb /\ last_soc = NoSoc
    /\ chain = [inv \in InverterIds |-> NoChain]
    /\ last_judge = NoJudge
    /\ shutdown = NoShutdown /\ last_setup = NoSetup
    /\ last_weather = NoWeather
    /\ last_status = NoStatus /\ events = NoEvents

CallOptimMain == \E a \in SetupMocks, lt \in TokenLifetimes : Boot(a, lt)

NextBoot ==
    \/ CallOptimMain
    \/ MainGetJobs

SpecBoot == InitBoot /\ [][NextBoot]_vars

(* ------------------------------------------------------------------ *)
(* Harness: get_weather_data called directly                             *)
(* ------------------------------------------------------------------ *)
\* The weather adapter called once, on a new object or on one that holds
\* the window of the day before, with the two APIs answering as the tests
\* make them.  The sunrise API: no answer, an empty
\* time, or a pair of times of day: a day, two polar days (sunrise =
\* sunset), a day that ends after midnight, a day of less than an hour.
\* The forecast API: no answer, an answer without its keys, or sample i of
\* the forecast holding i percent, every `interval` from first_timestamp.
WeatherDate == Day
SunPairs ==
    {<< 3 * Hour + 1200, 17 * Hour >>, << 5 * Hour, 5 * Hour >>,
     << 2 * Hour + 1797, 2 * Hour + 1797 >>,
     << 22 * Hour + 600, 2 * Hour + 1800 >>,
     << 3 * Hour + 1200, 3 * Hour + 3000 >>}
SunAnswers ==
    {[sun_ok |-> FALSE, sunrise |-> None, sunset |-> None],
     [sun_ok |-> TRUE, sunrise |-> None, sunset |-> Some(17 * Hour)],
     [sun_ok |-> TRUE, sunrise |-> Some(5 * Hour), sunset |-> None]}
    \cup {[sun_ok |-> TRUE, sunrise |-> Some(w[1]), sunset |-> Some(w[2])] :
              w \in SunPairs}
FirstTimestamps ==
    {WeatherDate, WeatherDate + 1800, WeatherDate + Hour,
     WeatherDate + 6 * Hour}
Intervals == {1800, 3600, 7200}
ForecastLengths == {0, 1, 23, 24, 25, 48}
ForecastAnswers ==
    {None,
     Some([malformed |-> TRUE, first_timestamp |-> 0, interval |-> 0,
           data |-> << >>])}
    \cup {Some([malformed |-> FALSE, first_timestamp |-> f, interval |-> v,
                data |-> [i \in 1..n |-> i]]) :
              f \in FirstTimestamps, v \in Intervals, n \in ForecastLengths}
WeatherAnswers ==
    {[sun_ok |-> a.sun_ok, sunrise |-> a.sunrise, sunset |-> a.sunset,
      response |-> r] : a \in SunAnswers, r \in ForecastAnswers}

\* the window of the day before: a day from 03:00 to 18:00
WindowBefore ==
    GetWeatherData(
        [sun_ok |-> TRUE, sunrise |-> Some(3 * Hour + 1200),
         sunset |-> Some(17 * Hour),
         response |-> Some([malformed |-> FALSE, first_timestamp |-> 0,
                            interval |-> Hour, data |-> [i \in 1..48 |-> i]])],
        0).weather_data

InitWeather ==
    /\ now \in StartTimes
    /\ main = "weather"
    /\ inverters = << 1 >>
    /\ token_ttl = None
    /\ judge_date = None /\ soc_check_date = None
    /\ optim = FALSE /\ optim_date = None
    /\ not_cloudy = FALSE /\ weather_data \in {None, Some(WindowBefore)}
    /\ min_price = None /\ min_price_timestamp = None
    /\ setting_value = None /\ device_value = None
    /\ jobs = [id \in JobIds |-> None]
    /\ running_jobs = {} /\ missed_jobs = {}
    /\ threads = [id \in ThreadIds |-> Idle]
    /\ device = [inv \in InverterIds |-> 0]
    /\ cycles = 0 /\ faults = 0
    /\ strat = NoStrat /\ last_cb = NoCb /\ last_soc = NoSoc
    /\ chain = [inv \in InverterIds |-> NoChain]
    /\ last_judge = NoJudge
    /\ shutdown = NoShutdown /\ last_setup = NoSetup
    /\ last_weather = NoWeather
    /\ last_status = NoStatus /\ events = NoEvents

CallGetWeatherData ==
    /\ main = "weather"
    /\ ~last_weather.ran
    /\ \E q \in WeatherAnswers :
          LET r == GetWeatherData(q, WeatherDate)
          IN /\ weather_data' = IF r.ok THEN Some(r.weather_data)
                                ELSE weather_data
             /\ last_weather' = [ran |-> TRUE, ok |-> r.ok,
                                 raised |-> r.raised, input |-> q,
                                 before |-> weather_data]
    /\ UNCHANGED << now, main, inverters, token_ttl, plan, not_cloudy,
                    min_price, min_price_timestamp, setting_value,
                    device_value, sched, threads, device, cycles, faults,
                    hist, shutdown, last_setup, traces >>

NextWeather == CallGetWeatherData

SpecWeather == InitWeather /\ [][NextWeather]_vars

(* ------------------------------------------------------------------ *)
(* Harness: _setting_command_status called once                          *)
(* ------------------------------------------------------------------ *)
\* the `timeout` default, the only value set_charge_current passes
DefaultTimeout == 10
\* time.sleep(2) between polls, the step of range(0, timeout, 2)
PollPeriod == 2
\* the ceilings the program and its tests call with
Timeouts == {PollPeriod, DefaultTimeout}
\* What api_post_request returns to one status request: None, a JSON body
\* without data.result, a result other than 1, result 1.
PollAnswers == {"none", "malformed", "pending", "done"}
\* len(range(0, timeout, 2))
PollCount(timeout) == (timeout + PollPeriod - 1) \div PollPeriod
MaxPolls == PollCount(DefaultTimeout)
StatusAnswers == [1..MaxPolls -> PollAnswers]

\* a loop that polls on after a request that got no response
RECURSIVE PollLoopKeepsOn(_, _, _)
PollLoopKeepsOn(answers, left, n) ==
    IF left = 0
    THEN [ok |-> FALSE, requests |-> n, why |-> "Command timeout!"]
    ELSE LET a == answers[n + 1]
         IN CASE a = "none" ->
                   PollLoopKeepsOn(answers, left - 1, n + 1)
              [] a = "malformed" ->
                   [ok |-> FALSE, requests |-> n + 1,
                    why |-> "Checking command status failed."]
              [] a = "done" ->
                   [ok |-> TRUE, requests |-> n + 1,
                    why |-> "Setting command sent successfuly."]
              [] OTHER -> PollLoopKeepsOn(answers, left - 1, n + 1)

\* The `for` of _setting_command_status after n requests, `left` iterations
\* to go.
RECURSIVE PollLoop(_, _, _)
PollLoop(answers, left, n) ==
    IF left = 0
    THEN [ok |-> FALSE, requests |-> n, why |-> "Command timeout!"]
    ELSE LET a == answers[n + 1]
         IN CASE a = "none" ->
                   [ok |-> FALSE, requests |-> n + 1,
                    why |-> "Getting command stasus failed!"]
              [] a = "malformed" ->
                   [ok |-> FALSE, requests |-> n + 1,
                    why |-> "Checking command status failed."]
              [] a = "done" ->
                   [ok |-> TRUE, requests |-> n + 1,
                    why |-> "Setting command sent successfuly."]
              [] OTHER -> PollLoop(answers, left - 1, n + 1)

\* ApiShine._setting_command_status(id, timeout)
SettingCommandStatus(has_token, answers, timeout) ==
    IF ~has_token
    THEN [ok |-> FALSE, requests |-> 0, why |-> "Session is not authorized!"]
    ELSE PollLoop(answers, PollCount(timeout), 0)

InitStatus ==
    /\ now \in StartTimes
    /\ main = "status"
    /\ inverters = << 1 >>
    /\ token_ttl = None
    /\ judge_date = None /\ soc_check_date = None
    /\ optim = FALSE /\ optim_date = None
    /\ not_cloudy = FALSE /\ weather_data = None
    /\ min_price = None /\ min_price_timestamp = None
    /\ setting_value = None /\ device_value = None
    /\ jobs = [id \in JobIds |-> None]
    /\ running_jobs = {} /\ missed_jobs = {}
    /\ threads = [id \in ThreadIds |-> Idle]
    /\ device = [inv \in InverterIds |-> 0]
    /\ cycles = 0 /\ faults = 0
    /\ strat = NoStrat /\ last_cb = NoCb /\ last_soc = NoSoc
    /\ chain = [inv \in InverterIds |-> NoChain]
    /\ last_judge = NoJudge
    /\ shutdown = NoShutdown /\ last_setup = NoSetup
    /\ last_weather = NoWeather
    /\ last_status = NoStatus /\ events = NoEvents

CallSettingCommandStatus ==
    /\ main = "status"
    /\ ~last_status.ran
    /\ \E has_token \in BOOLEAN, timeout \in Timeouts,
          answers \in StatusAnswers :
          LET r == SettingCommandStatus(has_token, answers, timeout)
          IN last_status' = [ran |-> TRUE, ok |-> r.ok,
                             requests |-> r.requests, why |-> r.why,
                             input |-> [has_token |-> has_token,
                                        timeout |-> timeout,
                                        answers |-> answers]]
    /\ UNCHANGED << now, main, inverters, token_ttl, plan, not_cloudy,
                    weather_data, min_price, min_price_timestamp,
                    setting_value, device_value, sched, threads, device,
                    cycles, faults, hist, shutdown, last_setup,
                    last_weather, events >>

NextStatus == CallSettingCommandStatus

SpecStatus == InitStatus /\ [][NextStatus]_vars

(* ------------------------------------------------------------------ *)
(* Harness: the scheduler's events and their listeners                   *)
(* ------------------------------------------------------------------ *)
\* The scheduler thread hands a due job to the pool and dispatches
\* EVENT_JOB_SUBMITTED afterwards; the pool thread dispatches
\* EVENT_JOB_MISSED (a run that came too late is not started),
\* EVENT_JOB_EXECUTED or EVENT_JOB_ERROR when the run is over.  The two
\* threads are not ordered, a listener runs in the thread that dispatches.
\* What a job does while it runs is left out here.
EventIds == {JudgeId, << K_soc, 1 >>}
\* run dates of add_job: due now, or too late by more than the grace time
EventRunDates == {now, now - MisfireGrace - 1}

InitEvents ==
    /\ now \in StartTimes
    /\ main = "events"
    /\ inverters = << 1 >>
    /\ token_ttl = None
    /\ judge_date = None /\ soc_check_date = None
    /\ optim = FALSE /\ optim_date = None
    /\ not_cloudy = FALSE /\ weather_data = None
    /\ min_price = None /\ min_price_timestamp = None
    /\ setting_value = None /\ device_value = None
    /\ jobs = [id \in JobIds |-> None]
    /\ running_jobs = {} /\ missed_jobs = {}
    /\ threads = [id \in ThreadIds |-> Idle]
    /\ device = [inv \in InverterIds |-> 0]
    /\ cycles = 0 /\ faults = 0
    /\ strat = NoStrat /\ last_cb = NoCb /\ last_soc = NoSoc
    /\ chain = [inv \in InverterIds |-> NoChain]
    /\ last_judge = NoJudge
    /\ shutdown = NoShutdown /\ last_setup = NoSetup
    /\ last_weather = NoWeather
    /\ last_status = NoStatus /\ events = NoEvents

\* what the events harness leaves alone
EventsFrame ==
    UNCHANGED << now, main, inverters, token_ttl, plan, factors,
                 setting_value, device_value, device, cycles, faults, hist,
                 shutdown, last_setup, last_weather, last_status >>

\* the event a listener is invoked with, and what it finds
Handled(kind, id) ==
    [kind |-> kind, id |-> id, running |-> running_jobs,
     missed |-> missed_jobs, jobs |-> jobs,
     running_after |-> running_jobs', missed_after |-> missed_jobs',
     jobs_after |-> jobs']

\* scheduler.add_job(..., id=id, replace_existing=True)
EvAddJob(id) ==
    /\ main = "events"
    /\ \E run_date \in EventRunDates :
          jobs' = AddJob(jobs, id, run_date, "")
    /\ UNCHANGED << running_jobs, missed_jobs, threads, events >>
    /\ EventsFrame

\* The scheduler thread wakes up for a due job: the job leaves the store and
\* goes to the pool, which starts it or finds it too late.
EvFire(id) ==
    /\ main = "events"
    /\ IsSet(jobs[id])
    /\ Val(jobs[id]).run_date <= now
    /\ threads[id].pc = "idle"
    /\ id \notin events.submitted \cup events.missed
    /\ jobs' = RemoveJob(jobs, id)
    /\ IF now - Val(jobs[id]).run_date <= MisfireGrace
       THEN /\ threads' = [threads EXCEPT ![id] = StartOf(id, Val(jobs[id]))]
            /\ events' = [events EXCEPT !.submitted = @ \cup {id}]
       ELSE /\ UNCHANGED threads
            /\ events' = [events EXCEPT !.submitted = @ \cup {id},
                                        !.missed = @ \cup {id}]
    /\ UNCHANGED << running_jobs, missed_jobs >>
    /\ EventsFrame

\* EVENT_JOB_SUBMITTED reaches _job_running_listener
EvSubmitted(id) ==
    /\ id \in events.submitted
    /\ LET sub == JobRunningListener(running_jobs, missed_jobs, id)
       IN /\ running_jobs' = sub.running
          /\ missed_jobs' = sub.missed
    /\ UNCHANGED << jobs, threads >>
    /\ events' = [events EXCEPT !.submitted = @ \ {id},
                                !.last = Handled("submitted", id)]
    /\ EventsFrame

\* EVENT_JOB_MISSED reaches _job_missed_listener
EvMissed(id) ==
    /\ id \in events.missed
    /\ LET mis == JobMissedListener(running_jobs, missed_jobs, id)
       IN /\ running_jobs' = mis.running
          /\ missed_jobs' = mis.missed
    /\ UNCHANGED << jobs, threads >>
    /\ events' = [events EXCEPT !.missed = @ \ {id},
                                !.last = Handled("missed", id)]
    /\ EventsFrame

\* The run is over: EVENT_JOB_EXECUTED reaches _job_finished_listener, or
\* EVENT_JOB_ERROR reaches _job_error_listener.
EvFinished(id, kind) ==
    /\ main = "events"
    /\ threads[id].pc # "idle"
    /\ threads' = [threads EXCEPT ![id] = Idle]
    /\ running_jobs' = JobFinishedListener(running_jobs, id)
    /\ UNCHANGED << jobs, missed_jobs >>
    /\ events' = [events EXCEPT !.last = Handled(kind, id)]
    /\ EventsFrame

EvExecuted(id) == EvFinished(id, "executed")
EvError(id) == EvFinished(id, "error")

NextEvents ==
    \E id \in EventIds :
       \/ EvAddJob(id)
       \/ EvFire(id)
       \/ EvSubmitted(id)
       \/ EvMissed(id)
       \/ EvExecuted(id)
       \/ EvError(id)

SpecEvents == InitEvents /\ [][NextEvents]_vars

(* ------------------------------------------------------------------ *)
(* Harness: the judge's methods called one at a time                     *)
(* ------------------------------------------------------------------ *)
\* optim_judge, _optim_strategy and _check_weather called directly on an
\* object whose attributes the caller has set, the way the unit tests call
\* them: the scheduler holds no job and is not started.
MaxUnitSamples == 4
\* direct calls of _optim_strategy in a row
MaxCalls == 2
\* the sunrise hour the judge dates are placed around
UnitSunrise == 5 * Hour
\* judge_date of a direct call of optim_judge, which is also the clock
UnitJudgeDates ==
    {UnitSunrise - JudgeSocDelay - 1, UnitSunrise - JudgeSocDelay,
     UnitSunrise - JudgeSocDelay + 1, UnitSunrise - 1, UnitSunrise,
     UnitSunrise + 1}
UnitForecasts == {<< >>} \cup SeqsUpTo(CloudValues, MaxUnitSamples)
UnitInverters == {<< >>, << 1 >>}
\* optim_date and soc_check_date of a direct call of _optim_strategy, from
\* its clock: missed, too close for a rebased SOC check, far enough
UnitOptimDelays ==
    {0 - 3 * Hour, SocLeadTime + RebaseDelay - 1, 3 * Hour}
\* passed, now, to come
UnitSocCheckDelays == {0 - 60, 0, 600}
UnitMinPrices == {None} \cup {Some(v) : v \in PriceValues}

InitUnit ==
    /\ main = "unit"
    /\ now \in UnitJudgeDates
    /\ token_ttl = None
    /\ not_cloudy = FALSE
    /\ min_price_timestamp = None
    /\ setting_value = None /\ device_value = None
    /\ running_jobs = {} /\ missed_jobs = {}
    /\ device \in [InverterIds -> InitSettings]
    /\ cycles = 0 /\ faults = 0
    /\ strat = NoStrat /\ last_cb = NoCb /\ last_soc = NoSoc
    /\ chain = [inv \in InverterIds |-> NoChain]
    /\ last_judge = NoJudge
    /\ shutdown = NoShutdown /\ last_setup = NoSetup
    /\ last_weather = NoWeather
    /\ last_status = NoStatus /\ events = NoEvents
    /\ inverters \in UnitInverters
    /\ \/ \* optim_judge is about to be called
          /\ threads = [id \in ThreadIds |->
                           IF id = JudgeId
                           THEN [Idle EXCEPT !.pc = "judge_factors",
                                             !.ret = "job",
                                             !.run_date = now]
                           ELSE Idle]
          /\ judge_date = Some(now)
          /\ soc_check_date = None
          /\ optim = FALSE /\ optim_date = None
          /\ weather_data = None
          /\ min_price = None
          /\ jobs = [id \in JobIds |-> None]
       \/ \* _optim_strategy or _check_weather is about to be called
          /\ threads = [id \in ThreadIds |-> Idle]
          /\ judge_date = None
          /\ optim \in BOOLEAN
          /\ optim_date \in {None} \cup {Some(now + d) : d \in UnitOptimDelays}
          /\ soc_check_date \in
                {None} \cup {Some(now + d) : d \in UnitSocCheckDelays}
          /\ min_price \in UnitMinPrices
          /\ \E w \in WeatherDays :
                weather_data = Some(SunTimes(DayStart(now), w))
          /\ jobs \in {[id \in JobIds |-> None],
                      AddJob([id \in JobIds |-> None], EodId(1),
                             Val(weather_data).sunset_time, slow_charge),
                      AddJob([id \in JobIds |-> None], ChargeId(1),
                             now + Hour, normal_charge)}

\* nothing has been called on the object yet
UnitFresh ==
    /\ main = "unit"
    /\ \A id \in ThreadIds : threads[id].pc = "idle"
    /\ ~strat.ran
    /\ ~last_judge.ran

\* a direct call of _optim_strategy, the first or a further one
CallOptimStrategy ==
    /\ main = "unit"
    /\ \A id \in ThreadIds : threads[id].pc = "idle"
    /\ ~last_judge.ran
    /\ strat.calls < MaxCalls
    /\ ApplyStrategy(OptimStrategy(now))
    /\ UNCHANGED << now, proc, inverters, token_ttl, judge_date, factors,
                    setting_value, device_value, running_jobs, missed_jobs,
                    threads, device, cycles, faults, last_cb, last_soc,
                    last_judge >>

\* a direct call of _check_weather, get_weather_data answering with the
\* cloud samples c
CallCheckWeather ==
    /\ UnitFresh
    /\ \E c \in UnitForecasts :
          /\ not_cloudy' = NotCloudy(c)
          /\ last_judge' = JudgeStage("weather_checked", jobs, << >>, c,
                                      << >>)
    /\ UNCHANGED << now, proc, inverters, token_ttl, plan, weather_data,
                    min_price, min_price_timestamp, setting_value,
                    device_value, sched, threads, device, cycles, faults,
                    strat, last_cb, last_soc, chain >>

NextUnit ==
    \/ JudgeFactors
    \/ JudgeStrategy
    \/ JudgeResched
    \/ CallOptimStrategy
    \/ CallCheckWeather

SpecUnit == InitUnit /\ [][NextUnit]_vars

(* ------------------------------------------------------------------ *)
(* Properties of _optim_strategy                                         *)
(* ------------------------------------------------------------------ *)
\* the last run of _optim_strategy found optim true, both dates and
\* min_price set and a non-empty inverter list
StratPlanPresent ==
    /\ strat.ran
    /\ strat.optim
    /\ IsSet(strat.optim_date)
    /\ IsSet(strat.soc_check_date)
    /\ IsSet(strat.min_price)
    /\ strat.inverters # << >>

\* C1, as the specification states it: whenever _optim_strategy runs with
\* optim true, both dates set, min_price set (any value, 0 included), a
\* non-empty inverter list and optim_date not yet elapsed, it returns success
\* and leaves for every inverter a pending optim_charge_battery_inv_<inv> at
\* optim_date, of mode fast_charge when min_price < 0 and normal_charge
\* otherwise.
C1_ChargeAtOptimDate ==
    (StratPlanPresent /\ strat.time_now <= Val(strat.optim_date))
    => /\ strat.result
       /\ \A i \in 1..Len(strat.inverters) :
             strat.jobs_after[ChargeId(strat.inverters[i])] =
                Some([run_date |-> Val(strat.optim_date),
                      mode |-> IF Val(strat.min_price) < 0
                               THEN "fast_charge" ELSE "normal_charge"])

\* C2, as the specification states it: whenever _optim_strategy runs with
\* optim true, every plan field and the inverter list present, and optim_date
\* elapsed, it returns success, leaves optim false and both dates null, and
\* leaves the pending actions as they were.
C2_MissedPlanCleared ==
    (StratPlanPresent /\ strat.time_now > Val(strat.optim_date))
    => /\ strat.result
       /\ ~strat.optim_after
       /\ strat.optim_date_after = None
       /\ strat.soc_check_date_after = None
       /\ strat.jobs_after = strat.jobs_before

\* the last run of _optim_strategy applied a plan: it went through the loop
\* over the inverters
StratApplied ==
    /\ StratPlanPresent
    /\ strat.result
    /\ strat.optim_after

\* the SOC check of inverter inv is pending at the soc_check_date the last
\* run of _optim_strategy left
StratSocPending(inv) ==
    strat.jobs_after[SocId(inv)] =
        Some([run_date |-> Val(strat.soc_check_date_after), mode |-> ""])

\* C3, as the specification states it: when _optim_strategy applies a plan
\* it schedules optim_soc_check_inv_<inv> at soc_check_date (rebased or not)
\* if and only if soc_check_date is more than 180 seconds before optim_date;
\* with a lead of 180 seconds or less there is no SOC check.
C3_SocCheckNeedsMoreThanLead ==
    StratApplied
    => \A i \in 1..Len(strat.inverters) :
          StratSocPending(strat.inverters[i])
             <=> (Val(strat.optim_date_after)
                     - Val(strat.soc_check_date_after) > 180)

(* ------------------------------------------------------------------ *)
(* Properties of optim_soc_check                                         *)
(* ------------------------------------------------------------------ *)
\* the last finished optim_soc_check read a battery SOC
SocRead == last_soc.ran /\ IsSet(last_soc.soc)

\* C4: an optim_soc_check that reads a SOC below 50 calls
\* optim_charge_battery(inverter, slow_charge); it re-schedules itself only
\* when its time_now + 30 min is more than 180 s before optim_date, and then
\* as optim_soc_check_inv_<inv> at time_now + 30 min; returning without
\* that lead it leaves the inverter's SOC-check job as it was.
C4_LowSocChargesSlowlyAndReschedules ==
    (SocRead /\ Val(last_soc.soc) < 50)
    => /\ last_soc.called = "slow_charge"
       /\ last_soc.scheduled
             => /\ last_soc.result = "True"
                /\ IsSet(last_soc.optim_date)
                /\ last_soc.time_now + 1800 < Val(last_soc.optim_date) - 180
                /\ last_soc.job_after =
                      Some([run_date |-> last_soc.time_now + 1800,
                            mode |-> ""])
       /\ ~last_soc.scheduled => last_soc.job_after = last_soc.job_before
       /\ (last_soc.result = "True" /\ ~last_soc.scheduled)
             => ~(last_soc.time_now + 1800 < Val(last_soc.optim_date) - 180)

\* a SOC check that read less than 50 and re-scheduled itself
C4_Witness ==
    /\ SocRead
    /\ Val(last_soc.soc) < 50
    /\ last_soc.scheduled

\* C5: an optim_soc_check that reads a SOC of 50 or more calls
\* optim_charge_battery(inverter, no_charge) and adds no SOC-check job: the
\* inverter's SOC-check job is after the invocation what it was before.
C5_HighSocEndsTheChain ==
    (SocRead /\ Val(last_soc.soc) >= 50)
    => /\ last_soc.called = "no_charge"
       /\ ~last_soc.scheduled
       /\ last_soc.job_after = last_soc.job_before

\* a SOC check that read exactly 50 and returned
C5_Witness ==
    /\ SocRead
    /\ Val(last_soc.soc) = 50
    /\ last_soc.result = "True"

\* C6: the chain of self-rescheduled SOC checks of an inverter is finite.
\* A check that re-schedules itself puts the next trigger 1800 s or more
\* after its own; a pending SOC check is never due later than
\* optim_date - 180; and the n-th self-rescheduled check of a chain is due
\* n * 1800 s or more after the first check.  So a chain whose first check
\* is due at `first` has at most (optim_date - 180 - first) / 1800
\* self-rescheduled checks, after which no SOC check of the inverter is
\* pending.
C6_SocCheckChainIsFinite ==
    /\ (last_soc.ran /\ last_soc.scheduled)
          => Val(last_soc.job_after).run_date >= last_soc.run_date + 1800
    /\ \A inv \in InverterIds :
          (IsSet(jobs[SocId(inv)]) /\ IsSet(optim_date))
             => /\ Val(jobs[SocId(inv)]).run_date <= Val(optim_date) - 180
                /\ Val(jobs[SocId(inv)]).run_date
                      >= chain[inv].first + chain[inv].n * 1800
                /\ chain[inv].n * 1800
                      <= Val(optim_date) - 180 - chain[inv].first

\* a chain ends: a SOC check that is the second self-rescheduled one or a
\* later one reads less than 50, finds the lead used up and leaves no SOC
\* check pending
C6_Witness ==
    /\ SocRead
    /\ Val(last_soc.soc) < 50
    /\ last_soc.result = "True"
    /\ ~last_soc.scheduled
    /\ jobs[SocId(last_soc.inv)] = None
    /\ chain[last_soc.inv].n >= 2

(* ------------------------------------------------------------------ *)
(* Properties of optim_charge_battery                                    *)
(* ------------------------------------------------------------------ *)
\* the last finished optim_charge_battery read the setting, and consumed it
CbRead == last_cb.ran /\ IsSet(last_cb.first)

\* the raw setting (0.1 A) that is the target of the last invocation
CbTargetRaw == CHARGE_MODES[last_cb.mode] * 10

\* C7: optim_charge_battery is idempotent: an invocation that reads a setting
\* equal to the target of its mode returns True after that one read, without
\* a set command.
C7_ChargeBatteryIdempotent ==
    (CbRead /\ Val(last_cb.first) = CbTargetRaw)
    => /\ last_cb.result = "True"
       /\ last_cb.writes = 0
       /\ last_cb.reads = 1

\* an invocation that found the setting at its target
C7_Witness ==
    /\ CbRead
    /\ Val(last_cb.first) = CbTargetRaw
    /\ last_cb.result = "True"

\* C8: no silent partial success: an invocation that reads a setting other
\* than its target issues one set command, and returns True exactly when
\* it read the setting again and found the target; a refused set command, a
\* failed second read and a second read of another value each raise.
C8_NoSilentPartialSuccess ==
    (CbRead /\ Val(last_cb.first) # CbTargetRaw)
    => /\ last_cb.writes = 1
       /\ last_cb.result \in {"True", "RuntimeError", "TypeError"}
       /\ last_cb.result = "True"
             <=> (IsSet(last_cb.second) /\ Val(last_cb.second) = CbTargetRaw)
       /\ last_cb.result = "True" => last_cb.reads = 2

\* the set command was accepted, the second read returned another value
\* than the target, and the invocation raised
C8_Witness ==
    /\ CbRead
    /\ last_cb.writes = 1
    /\ last_cb.reads = 2
    /\ IsSet(last_cb.second)
    /\ Val(last_cb.second) # CbTargetRaw
    /\ last_cb.result = "RuntimeError"

\* C9: optim_charge_battery accepts exactly no_charge, slow_charge,
\* normal_charge and fast_charge, with the targets 1, 30, 60 and 90 A: with a
\* valid session every other mode raises AttributeError before any read or
\* write, an accepted mode never does, and the setting an accepted mode
\* returns True on is its target (raw settings are in 0.1 A).
C9_ExactlyFourModes ==
    last_cb.ran
    => LET accepted ==
               {"no_charge", "slow_charge", "normal_charge", "fast_charge"}
           amps == CASE last_cb.mode = "no_charge" -> 1
                     [] last_cb.mode = "slow_charge" -> 30
                     [] last_cb.mode = "normal_charge" -> 60
                     [] last_cb.mode = "fast_charge" -> 90
                     [] OTHER -> 0
           settled == IF last_cb.writes = 0 THEN last_cb.first
                      ELSE last_cb.second
       IN /\ (last_cb.mode \notin accepted /\ last_cb.login # "failed")
                => /\ last_cb.result = "AttributeError"
                   /\ last_cb.reads = 0
                   /\ last_cb.writes = 0
          /\ last_cb.mode \in accepted
                => /\ last_cb.result # "AttributeError"
                   /\ last_cb.result = "True" => settled = Some(amps * 10)

\* a call with a mode that is none of the four, on a valid session
C9_Witness ==
    /\ last_cb.ran
    /\ last_cb.mode = "test_mode"
    /\ last_cb.login # "failed"
    /\ last_cb.result = "AttributeError"

(* ------------------------------------------------------------------ *)
(* The session                                                           *)
(* ------------------------------------------------------------------ *)
\* an invocation logs in again exactly when it finds token_ttl < time_now,
\* and one whose login fails raises RuntimeError, having sent the device no
\* request, with the main loop running
C10_State ==
    /\ last_cb.ran
          => /\ (last_cb.login # "") <=> (Val(last_cb.ttl) < last_cb.time_now)
             /\ last_cb.login = "failed"
                   => /\ last_cb.result = "RuntimeError"
                      /\ last_cb.reads = 0
                      /\ last_cb.writes = 0
                      /\ main = "loop"
    /\ last_soc.ran
          => /\ (last_soc.login # "")
                   <=> (Val(last_soc.ttl) < last_soc.time_now)
             /\ last_soc.login = "failed"
                   => /\ last_soc.result = "RuntimeError"
                      /\ last_soc.reads = 0
                      /\ last_soc.writes = 0
                      /\ last_soc.called = ""
                      /\ main = "loop"

\* the step in which an invocation's login fails leaves the pending jobs,
\* the other threads and the main loop as they are
C10_Step ==
    \A id \in ThreadIds :
       (/\ threads[id].pc \in {"cb_get1", "soc_get"}
        /\ threads'[id].pc = "idle"
        /\ \/ last_cb' # last_cb /\ last_cb'.login = "failed"
           \/ last_soc' # last_soc /\ last_soc'.login = "failed")
       => /\ jobs' = jobs
          /\ main' = main
          /\ \A other \in ThreadIds \ {id} : threads'[other] = threads[other]

\* C10: optim_charge_battery and optim_soc_check start by comparing
\* token_ttl with the clock and log in again when the token has expired; if
\* that login fails the invocation raises without a device read or write,
\* and the process goes on: the pending jobs stay pending.
C10_FailedLoginEndsOnlyTheInvocation == []C10_State /\ [][C10_Step]_vars

\* an invocation of each kind found the token expired, and the login of the
\* SOC check failed while a job is pending
C10_Witness ==
    /\ last_soc.ran
    /\ last_soc.login = "failed"
    /\ last_soc.result = "RuntimeError"
    /\ Pending(jobs) # {}

(* ------------------------------------------------------------------ *)
(* The daily judge                                                       *)
(* ------------------------------------------------------------------ *)
\* the device actions pending in js
DeviceJobs(js) == [id \in JobIds \ {JudgeId} |-> js[id]]

\* C11: when fetching the judge factors fails (weather or price),
\* optim_judge re-registers itself under the id optim_judge with a trigger
\* 30 minutes after the previous judge instant, schedules no device action,
\* leaves the plan (optim, optim_date, soc_check_date) unchanged and raises:
\* the cycle ends there.
C11_FactorFailureRetriesIn30Minutes ==
    (last_judge.ran /\ last_judge.ending = "factors_failed")
    => /\ last_judge.jobs_after[JudgeId]
             = Some([run_date |-> Val(last_judge.judge_date) + 30 * 60,
                     mode |-> ""])
       /\ judge_date = Some(Val(last_judge.judge_date) + 30 * 60)
       /\ DeviceJobs(last_judge.jobs_after)
             = DeviceJobs(last_judge.jobs_before)
       /\ jobs = last_judge.jobs_after
       /\ optim = last_judge.optim
       /\ optim_date = last_judge.optim_date
       /\ soc_check_date = last_judge.soc_check_date
       /\ threads[JudgeId].pc = "idle"
       /\ JudgeId \notin running_jobs

\* the price fetch of the second cycle failed, with yesterday's plan set
C11_Witness ==
    /\ last_judge.ran
    /\ last_judge.ending = "factors_failed"
    /\ last_judge.sun # << >>
    /\ last_judge.optim
    /\ IsSet(jobs[JudgeId])

\* the actions pending under the id optim_judge
JudgePending(js) == {id \in Pending(js) : id[1] = K_judge}

\* C12: after every judge cycle that ends in success or in a judge-factor
\* failure, exactly one action with the id optim_judge is pending again, at
\* an instant that is still to come.
C12_JudgePendingAfterCycle ==
    (last_judge.ran /\ last_judge.ending \in {"success", "factors_failed"})
    => /\ Cardinality(JudgePending(last_judge.jobs_after)) = 1
       /\ jobs[JudgeId] = last_judge.jobs_after[JudgeId]
       /\ Val(jobs[JudgeId]).run_date > now
       /\ threads[JudgeId].pc = "idle"

\* the second cycle succeeded and the third judge is pending
C12_Witness ==
    /\ last_judge.ran
    /\ last_judge.ending = "success"
    /\ cycles = 2
    /\ JudgePending(jobs) = {JudgeId}

\* C13: after a successful judge cycle the pending optim_judge action is
\* triggered at 04:06 UTC of the day following the UTC day on which the
\* cycle finished, which is strictly later than the instant it finished.
C13_NextJudgeTomorrowAt0406 ==
    (last_judge.ran /\ last_judge.ending = "success")
    => LET finished == last_judge.time_now
           trigger == Val(last_judge.jobs_after[JudgeId]).run_date
       IN /\ IsSet(last_judge.jobs_after[JudgeId])
          /\ trigger = ((finished \div 86400) + 1) * 86400
                          + 4 * 3600 + 6 * 60
          /\ trigger > finished
          /\ judge_date = Some(trigger)

\* a cycle that was itself a retry, half an hour late or more, succeeded
C13_Witness ==
    /\ last_judge.ran
    /\ last_judge.ending = "success"
    /\ last_judge.time_now >= JudgeInstant(last_judge.time_now) + JudgeRetry
    /\ IsSet(jobs[JudgeId])

\* optim_judge has just planned a not-cloudy day
PlannedSunny ==
    /\ last_judge.ran
    /\ last_judge.ending = "planned"
    /\ not_cloudy

\* the later of two instants
Later(a, b) == IF a >= b THEN a ELSE b

LeastPrice(p) ==
    CHOOSE v \in {p[i][2] : i \in 1..Len(p)} :
        \A i \in 1..Len(p) : v <= p[i][2]
FirstLeast(p) ==
    CHOOSE i \in 1..Len(p) :
        /\ p[i][2] = LeastPrice(p)
        /\ \A j \in 1..(i - 1) : p[j][2] # LeastPrice(p)

\* C16: in every cycle, for every price mapping with at least one entry,
\* _get_judge_factors leaves min_price equal to the least price of the
\* mapping and min_price_timestamp equal to the UTC hour boundary of the
\* earliest quarter of that mapping with the least price, whichever position
\* holds it.
C16_MinPriceAndItsHour ==
    (last_judge.ran /\ last_judge.prices # << >>)
    => LET p == last_judge.prices
           date == (last_judge.time_now \div 86400) * 86400
           quarter == date + p[FirstLeast(p)][1] - WarsawUtcOffset
       IN /\ min_price = Some(LeastPrice(p))
          /\ min_price_timestamp = Some((quarter \div 3600) * 3600)

\* the SOC-check and charge actions pending in js
PlanJobs(js) ==
    [id \in {i \in JobIds : i[1] \in {K_soc, K_charge}} |-> js[id]]

\* C15: optim_judge decides the plan from the weather verdict: on a
\* not-cloudy day optim is true and optim_date is the hour of the least
\* price of this cycle's price mapping; otherwise optim is false, optim_date
\* and soc_check_date are null and the cycle schedules no SOC-check and no
\* charge action.
C15_PlanFollowsWeatherVerdict ==
    /\ (last_judge.ran /\ last_judge.ending = "planned")
       => IF not_cloudy
          THEN LET p == last_judge.prices
                   date == (last_judge.time_now \div 86400) * 86400
                   quarter == date + p[FirstLeast(p)][1] - WarsawUtcOffset
               IN /\ optim
                  /\ optim_date = Some((quarter \div 3600) * 3600)
          ELSE /\ ~optim
               /\ optim_date = None
               /\ soc_check_date = None
    /\ (strat.ran /\ ~not_cloudy)
       => /\ ~strat.optim
          /\ PlanJobs(strat.jobs_after) = PlanJobs(strat.jobs_before)

(* ------------------------------------------------------------------ *)
(* The weather verdict                                                   *)
(* ------------------------------------------------------------------ *)
\* _check_weather has just given its verdict on the samples last_judge.clouds
WeatherChecked ==
    /\ last_judge.ran
    /\ \/ last_judge.ending \in {"weather_checked", "planned", "crashed"}
       \/ last_judge.ending = "factors_failed" /\ last_judge.sun # << >>

\* the samples strictly below 0.75 (75 percent)
ClearSamples(c) == SelectSeq(c, LAMBDA sample : sample < 75)

\* C17: _check_weather sets not_cloudy to true if and only if the number of
\* cloud samples strictly below 0.75 is strictly greater than half the
\* number of samples; an exact half/half split and an empty sample list both
\* give not_cloudy = false.
C17_NotCloudyIffClearMajority ==
    WeatherChecked
    => LET c == last_judge.clouds
       IN /\ not_cloudy <=> (2 * Len(ClearSamples(c)) > Len(c))
          /\ 2 * Len(ClearSamples(c)) = Len(c) => ~not_cloudy
          /\ c = << >> => ~not_cloudy

\* the samples 0.75, 0.75, 0.1, 0.1: half of them clear, and the day is cloudy
C17_Witness ==
    /\ WeatherChecked
    /\ last_judge.ending = "weather_checked"
    /\ last_judge.clouds = << 75, 75, 10, 10 >>
    /\ ~not_cloudy

(* ------------------------------------------------------------------ *)
(* The end-of-day action                                                 *)
(* ------------------------------------------------------------------ *)
\* the last run of _optim_strategy scheduled the end-of-day slow_charge of
\* inverter inv at sunset_time
EodAdded(inv) ==
    /\ strat.jobs_after[EodId(inv)]
          = Some([run_date |-> Val(weather_data).sunset_time,
                  mode |-> "slow_charge"])
    /\ strat.jobs_after[EodId(inv)] # strat.jobs_before[EodId(inv)]

\* C18: when _optim_strategy applies a plan it schedules, for every
\* inverter, the end-of-day slow_charge action eod_charge_battery_inv_<inv>
\* at sunset_time if and only if the day is not a polar day or night, that
\* is, unless the sunrise API answered sunrise == sunset; on such a day it
\* leaves the end-of-day actions as they were.
C18_EodOnlyOnNormalDays ==
    (StratApplied /\ last_judge.ran /\ last_judge.ending = "applied"
       /\ last_judge.sun # << >>)
    => \A i \in 1..Len(strat.inverters) :
          LET inv == strat.inverters[i]
          IN IF last_judge.sun[1] = last_judge.sun[2]
             THEN strat.jobs_after[EodId(inv)] = strat.jobs_before[EodId(inv)]
             ELSE EodAdded(inv)

(* ------------------------------------------------------------------ *)
(* The guards of _optim_strategy                                         *)
(* ------------------------------------------------------------------ *)
\* C19: when _optim_strategy applies a plan whose optim_date has not
\* passed, a soc_check_date that has already passed is rebased to
\* now + 30 seconds, and it is the rebased date that the lead-time rule
\* looks at and the SOC check is scheduled for; a soc_check_date that has
\* not passed is left unchanged.
C19_PassedSocCheckDateRebased ==
    StratApplied
    => LET time_now == strat.time_now
           scd == Val(strat.soc_check_date)
           od == Val(strat.optim_date)
           after == Val(strat.soc_check_date_after)
       IN /\ IsSet(strat.soc_check_date_after)
          /\ time_now > scd => after = time_now + 30
          /\ time_now <= scd => after = scd
          /\ \A i \in 1..Len(strat.inverters) :
                LET id == SocId(strat.inverters[i])
                IN IF after > od - 180
                   THEN strat.jobs_after[id] = strat.jobs_before[id]
                   ELSE strat.jobs_after[id]
                           = Some([run_date |-> after, mode |-> ""])

\* a passed soc_check_date was rebased and the SOC check scheduled for it
C19_Witness ==
    /\ StratApplied
    /\ strat.time_now > Val(strat.soc_check_date)
    /\ strat.soc_check_date_after = Some(strat.time_now + 30)
    /\ \E i \in 1..Len(strat.inverters) :
          strat.jobs_after[SocId(strat.inverters[i])]
             = Some([run_date |-> strat.time_now + 30, mode |-> ""])

\* _optim_strategy ran with optim true and a part of the plan missing
StratPlanMissing ==
    /\ strat.ran
    /\ strat.optim
    /\ \/ ~IsSet(strat.optim_date)
       \/ ~IsSet(strat.soc_check_date)
       \/ ~IsSet(strat.min_price)
       \/ strat.inverters = << >>

\* C20: with optim true, _optim_strategy returns failure and schedules no
\* action whenever optim_date, soc_check_date or min_price is not set or the
\* inverter list is missing or empty, and it leaves the plan as it was;
\* called by optim_judge, the judge then raises: the cycle ends without the
\* judge re-scheduling itself.
C20_MissingPlanFails ==
    StratPlanMissing
    => /\ ~strat.result
       /\ strat.jobs_after = strat.jobs_before
       /\ jobs = strat.jobs_after
       /\ strat.optim_after
       /\ strat.optim_date_after = strat.optim_date
       /\ strat.soc_check_date_after = strat.soc_check_date
       /\ last_judge.ran
             => /\ last_judge.ending = "strategy_failed"
                /\ threads[JudgeId].pc = "idle"
                /\ jobs[JudgeId] = None

\* optim_judge planned a sunny day for an object without inverters
C20_Witness ==
    /\ StratPlanMissing
    /\ strat.inverters = << >>
    /\ IsSet(strat.optim_date)
    /\ last_judge.ran
    /\ last_judge.ending = "strategy_failed"

\* C21: with optim false, _optim_strategy is a no-op that returns success:
\* it schedules no action and changes neither the plan (optim, optim_date,
\* soc_check_date) nor the pending actions, at the first call and at every
\* further one.
C21_OptimFalseIsNoOp ==
    (strat.ran /\ ~strat.optim)
    => /\ strat.result
       /\ strat.jobs_after = strat.jobs_before
       /\ ~strat.optim_after
       /\ strat.optim_date_after = strat.optim_date
       /\ strat.soc_check_date_after = strat.soc_check_date

\* the second call in a row, with an end-of-day action pending and dates
\* left over in the plan
C21_Witness ==
    /\ strat.ran
    /\ ~strat.optim
    /\ strat.calls = 2
    /\ strat.result
    /\ IsSet(strat.optim_date)
    /\ Pending(jobs) # {}

(* ------------------------------------------------------------------ *)
(* The job store                                                         *)
(* ------------------------------------------------------------------ *)
\* C22: in every reachable state the scheduler holds at most one pending
\* action per id; scheduling an id that is still pending replaces it, and
\* the pending trigger is the one the latest scheduling call gave:
\* _optim_strategy's optim_date, soc_check_date and sunset_time, the judge's
\* judge_date.
C22_OnePendingActionPerId ==
    /\ \A id \in JobIds : Len(jobs[id]) <= 1
    /\ StratApplied
       => \A i \in 1..Len(strat.inverters) :
             LET inv == strat.inverters[i]
                 sc == strat.jobs_after[SocId(inv)]
             IN /\ Len(strat.jobs_after[ChargeId(inv)]) = 1
                /\ strat.jobs_after[ChargeId(inv)][1].run_date
                      = Val(strat.optim_date)
                /\ Len(sc) <= 1
                /\ sc # strat.jobs_before[SocId(inv)]
                      => sc = Some([run_date |->
                                       Val(strat.soc_check_date_after),
                                    mode |-> ""])
                /\ Len(strat.jobs_after[EodId(inv)]) <= 1
                /\ IsSet(strat.jobs_after[EodId(inv)])
                      => strat.jobs_after[EodId(inv)]
                            = Some([run_date |->
                                       Val(weather_data).sunset_time,
                                    mode |-> "slow_charge"])
    /\ (last_judge.ran /\ last_judge.ending \in {"success", "factors_failed"})
       => last_judge.jobs_after[JudgeId]
             = Some([run_date |-> Val(judge_date), mode |-> ""])

\* _optim_strategy found the charge action of inverter 1 pending for
\* another instant and scheduled it anew: it is pending once, at optim_date
C22_Witness ==
    /\ StratApplied
    /\ IsSet(strat.jobs_before[ChargeId(1)])
    /\ Val(strat.jobs_before[ChargeId(1)]).run_date # Val(strat.optim_date)
    /\ jobs[ChargeId(1)]
          = Some([run_date |-> Val(strat.optim_date),
                  mode |-> Val(jobs[ChargeId(1)]).mode])

(* ------------------------------------------------------------------ *)
(* The exit of the process                                               *)
(* ------------------------------------------------------------------ *)
\* C23: on a termination signal the scheduler is halted, and the process
\* exits with code 0, only after the running-action set has drained:
\* _signal_handler never calls scheduler.shutdown() in a state where a job
\* is still being executed or self.running_jobs is not empty, and exit code
\* 0 is reached through that call only, with no job executing.
C23_SignalHaltsOnlyWhenDrained ==
    /\ shutdown.halted_by = "signal"
          => shutdown.executing = {} /\ shutdown.running = {}
    /\ main = "exit0" => shutdown.halted_by = "signal" /\ Executing = {}

\* a step between the signal and the halt starts no job and schedules none
QuietAfterSignal ==
    main \in SignalCaught
       => /\ \A id \in ThreadIds :
                threads[id].pc = "idle" => threads'[id].pc = "idle"
          /\ \A id \in JobIds : IsSet(jobs'[id]) => jobs'[id] = jobs[id]

\* C24: once a termination signal has been caught, and until the scheduler
\* is halted, no pending job starts executing and no job is scheduled or
\* rescheduled: the jobs already running may only finish.
C24_NoNewTriggerAfterSignal == [][QuietAfterSignal]_vars

\* C25: the main loop of optim_main keeps running, sending WATCHDOG=1, as
\* long as a job is pending or self.running_jobs is not empty; it shuts the
\* scheduler down and exits with code 1 only in a state where no job is
\* pending and none is running.
C25_MainLoopExitsOnlyWhenIdle ==
    /\ main = "loop_exit" => Pending(jobs) = {} /\ running_jobs = {}
    /\ shutdown.halted_by = "main"
          => /\ shutdown.pending = {} /\ shutdown.running = {}
             /\ shutdown.executing = {}
    /\ main \in {"shutdown1", "exit1"} => shutdown.halted_by = "main"
    /\ main = "exit1" => Executing = {}

(* ------------------------------------------------------------------ *)
(* The start of the process                                              *)
(* ------------------------------------------------------------------ *)
\* optim_main has left with code 1 after the requests `calls`, with nothing
\* scheduled and the scheduler not started
SetupStopped(calls) ==
    /\ main = "exit1"
    /\ last_setup.calls = calls
    /\ Pending(jobs) = {} /\ judge_date = None
    /\ inverters = << >>
    /\ Executing = {} /\ running_jobs = {}
    /\ shutdown.halted_by = ""

\* C26: if a setup step fails (login, plant list fetch, empty plant list,
\* configured plant not in the list, several plants without SHINE_PLANT,
\* inverter list fetch, empty inverter list), the process exits with code 1
\* before the steps after it are attempted, and before any action is
\* scheduled or the scheduler is started.
C26_SetupFailureExitsBeforeTheNextStep ==
    last_setup.ran =>
       LET a == last_setup.input
           plants == a.login /\ a.plant_list
           plant == /\ plants /\ a.plants_id # {}
                    /\ \/ a.shine_plant \in a.plants_id
                       \/ a.shine_plant = "" /\ Cardinality(a.plants_id) = 1
       IN /\ ~a.login => SetupStopped(<< "login_shine" >>)
          /\ (a.login /\ ~a.plant_list)
                => SetupStopped(<< "login_shine", "get_plant_list" >>)
          /\ (plants /\ a.plants_id = {})
                => SetupStopped(<< "login_shine", "get_plant_list" >>)
          /\ (plants /\ a.shine_plant # "" /\ a.shine_plant \notin a.plants_id)
                => SetupStopped(<< "login_shine", "get_plant_list" >>)
          /\ (plants /\ a.shine_plant = "" /\ Cardinality(a.plants_id) > 1)
                => SetupStopped(<< "login_shine", "get_plant_list" >>)
          /\ (plant /\ ~a.device_list_ok)
                => SetupStopped(<< "login_shine", "get_plant_list",
                                   "get_device_list" >>)
          /\ (plant /\ a.device_list_ok /\ a.device_list = << >>)
                => SetupStopped(<< "login_shine", "get_plant_list",
                                   "get_device_list" >>)

\* the last step fails, after all the others have passed: two plants, the
\* one SHINE_PLANT names has no inverter
C26_Witness ==
    /\ last_setup.ran /\ main = "exit1"
    /\ last_setup.input.login /\ last_setup.input.plant_list
    /\ last_setup.input.plants_id = PlantNames
    /\ last_setup.input.shine_plant = "home"
    /\ last_setup.input.device_list_ok
    /\ last_setup.input.device_list = << >>
    /\ Pending(jobs) = {}

\* C27: optim_main schedules the first judge at today's 04:06 UTC when the
\* current instant is not later than that, and at tomorrow's 04:06 UTC
\* otherwise: the trigger is never in the past and less than 24 hours away.
C27_FirstJudgeAtNext0406 ==
    (last_setup.ran /\ last_setup.ok) =>
       LET t == last_setup.time_now
           today == t - (t % Day) + JudgeHour * Hour + JudgeMinute * 60
       IN /\ IsSet(jobs[JudgeId])
          /\ Val(jobs[JudgeId]).run_date =
                IF t <= today THEN today ELSE today + Day
          /\ Val(jobs[JudgeId]).run_date >= t
          /\ Val(jobs[JudgeId]).run_date - t < Day
          /\ judge_date = Some(Val(jobs[JudgeId]).run_date)

\* optim_main started at 04:06:00 sharp: the judge is due at once
C27_Witness ==
    /\ last_setup.ran /\ last_setup.ok /\ main = "loop"
    /\ last_setup.time_now % Day = JudgeHour * Hour + JudgeMinute * 60
    /\ IsSet(jobs[JudgeId])
    /\ Val(jobs[JudgeId]).run_date = last_setup.time_now

(* ------------------------------------------------------------------ *)
(* The weather window                                                    *)
(* ------------------------------------------------------------------ *)
\* what the last call of get_weather_data was answered, and what it left
WeatherInput == last_weather.input
RawForecast == Val(WeatherInput.response)
SunAnswered ==
    /\ last_weather.ran /\ WeatherInput.sun_ok
    /\ IsSet(WeatherInput.sunrise) /\ IsSet(WeatherInput.sunset)
ForecastAnswered ==
    /\ last_weather.ran
    /\ IsSet(WeatherInput.response) /\ ~RawForecast.malformed
SunriseHour == WeatherDate + (Val(WeatherInput.sunrise) \div Hour) * Hour
SunsetHour ==
    LET h == WeatherDate + (Val(WeatherInput.sunset) \div Hour) * Hour
    IN IF SunriseHour > h THEN h + Day ELSE h
EmittedClouds == Val(weather_data).low_clouds_data

\* get_weather_data was called on a polar day with a forecast that holds
\* samples and starts no later than the sunrise hour
PolarCall ==
    /\ SunAnswered /\ ForecastAnswered
    /\ WeatherInput.sunrise = WeatherInput.sunset
    /\ RawForecast.data # << >>
    /\ RawForecast.first_timestamp <= SunriseHour

\* C28: for a window whose sunrise equals its sunset (polar day or night),
\* get_weather_data succeeds and the low_clouds_data it emits is exactly the
\* first 24 samples of the raw forecast, or all of them when the forecast
\* has fewer than 24, whatever the interval and the first timestamp are.
C28_PolarWindowIsFirst24Samples ==
    PolarCall =>
       /\ last_weather.ok /\ last_weather.raised = ""
       /\ IsSet(weather_data)
       /\ Len(EmittedClouds) =
             (IF Len(RawForecast.data) < 24 THEN Len(RawForecast.data)
              ELSE 24)
       /\ \A i \in 1..Len(EmittedClouds) :
             EmittedClouds[i] = RawForecast.data[i]

\* a polar day with a forecast of more than 24 samples whose first
\* timestamp is not on the interval
C28_Witness ==
    /\ PolarCall /\ last_weather.ok
    /\ Len(RawForecast.data) > 24
    /\ RawForecast.first_timestamp % RawForecast.interval # 0
    /\ Len(EmittedClouds) = 24

\* get_weather_data emitted the window of a day that is not polar
WindowEmitted ==
    /\ SunAnswered /\ ForecastAnswered
    /\ last_weather.ok
    /\ WeatherInput.sunrise # WeatherInput.sunset

\* C29: when the sunrise hour is later than the sunset hour, sunset is
\* shifted by 24 hours before slicing; every window that is not polar holds
\* exactly the raw samples covering [sunrise, sunset + 1h) at interval
\* granularity: (sunset + 1h - sunrise) / interval samples, starting at the
\* sample of the sunrise hour.
C29_WindowCoversSunriseToSunsetPlusHour ==
    WindowEmitted =>
       /\ Val(weather_data).sunrise_time = SunriseHour
       /\ Val(weather_data).sunset_time = SunsetHour + Hour
       /\ Len(EmittedClouds) * RawForecast.interval
             = SunsetHour + Hour - SunriseHour
       /\ \A i \in 1..Len(EmittedClouds) :
             LET t == SunriseHour + (i - 1) * RawForecast.interval
                 k == (t - RawForecast.first_timestamp)
                         \div RawForecast.interval
             IN /\ k + 1 \in 1..Len(RawForecast.data)
                /\ EmittedClouds[i] = RawForecast.data[k + 1]

\* sunrise at 22:10, sunset at 02:30: the window runs from 22:00 to 03:00
\* of the next day
C29_Witness ==
    /\ WindowEmitted
    /\ Val(WeatherInput.sunrise) \div Hour > Val(WeatherInput.sunset) \div Hour
    /\ Val(weather_data).sunset_time = WeatherDate + Day + 3 * Hour
    /\ RawForecast.interval = Hour
    /\ Len(EmittedClouds) = 5

\* C30: every window get_weather_data reports as valid has its sunrise,
\* sunset and first-sample timestamps exactly divisible by interval; when
\* one of them is not, the call returns failure and produces no window.
C30_ValidWindowIsOnTheInterval ==
    (SunAnswered /\ ForecastAnswered) =>
       LET on == /\ SunriseHour % RawForecast.interval = 0
                 /\ (SunsetHour + Hour) % RawForecast.interval = 0
                 /\ RawForecast.first_timestamp % RawForecast.interval = 0
       IN /\ last_weather.ok => on
          /\ ~on => /\ ~last_weather.ok
                    /\ weather_data = last_weather.before


\* C31: command-status polling always ends.  _setting_command_status sends
\* at most timeout/2 status requests (5 for the default ceiling of 10 s);
\* it returns True on the first poll that reports result 1, False at once
\* on a request without response or a malformed response, and False with
\* "Command timeout!" after the last poll when every poll reported a result
\* other than 1.
C31_StatusPollingIsBounded ==
    last_status.ran =>
       LET i == last_status.input
           n == last_status.requests
           polls == i.timeout \div PollPeriod
       IN /\ n <= polls
          /\ i.timeout = DefaultTimeout => n <= 5
          /\ ~i.has_token => n = 0 /\ ~last_status.ok
          /\ i.has_token =>
                /\ \A k \in 1..(n - 1) : i.answers[k] = "pending"
                /\ last_status.ok <=> (n >= 1 /\ i.answers[n] = "done")
                /\ last_status.why = "Command timeout!"
                      <=> (n = polls /\ i.answers[n] = "pending")
                /\ ~last_status.ok /\ last_status.why # "Command timeout!"
                      => n >= 1 /\ i.answers[n] \in {"none", "malformed"}
\* the default ceiling runs out after five polls
C31_Witness ==
    /\ last_status.ran /\ ~last_status.ok
    /\ last_status.input.timeout = DefaultTimeout
    /\ last_status.requests = 5
    /\ last_status.why = "Command timeout!"


\* the event handled last, with the sets before and after its listener
ev == events.last

\* C32: the submitted event.  When the id is recorded as missed,
\* _job_running_listener removes it from missed_jobs and leaves running_jobs
\* as it was; otherwise it adds the id to running_jobs and leaves
\* missed_jobs as it was.
C32_SubmittedTransition ==
    ev.kind = "submitted" =>
       IF ev.id \in ev.missed
       THEN /\ ev.missed_after = ev.missed \ {ev.id}
            /\ ev.running_after = ev.running
       ELSE /\ ev.running_after = ev.running \cup {ev.id}
            /\ ev.missed_after = ev.missed
\* a submitted event whose miss was recorded first, next to a running job
C32_Witness ==
    /\ ev.kind = "submitted" /\ ev.id \in ev.missed
    /\ ev.running # {}

\* C33: the missed event.  When the id is not in running_jobs,
\* _job_missed_listener adds it to missed_jobs and leaves running_jobs as it
\* was; when it is, the listener removes it from running_jobs and does not
\* record it as missed.
C33_MissedTransition ==
    ev.kind = "missed" =>
       IF ev.id \notin ev.running
       THEN /\ ev.missed_after = ev.missed \cup {ev.id}
            /\ ev.running_after = ev.running
       ELSE /\ ev.running_after = ev.running \ {ev.id}
            /\ ev.missed_after = ev.missed
            /\ ev.id \notin ev.missed_after
\* a missed event for an id that its submitted event has marked running
C33_Witness ==
    /\ ev.kind = "missed" /\ ev.id \in ev.running
    /\ ev.running # {ev.id}

\* C34: the executed and the errored event both remove the id from
\* running_jobs and leave missed_jobs and the pending jobs as they were: a
\* job that raised is not scheduled again by the listener.
C34_FinishedTransition ==
    ev.kind \in {"executed", "error"} =>
       /\ ev.running_after = ev.running \ {ev.id}
       /\ ev.missed_after = ev.missed
       /\ ev.jobs_after = ev.jobs
       /\ ev.id \notin ev.running_after
\* a job that raised while a miss of another job is recorded
C34_Witness ==
    /\ ev.kind = "error" /\ ev.id \in ev.running
    /\ ev.missed # {}
    /\ ~IsSet(ev.jobs_after[ev.id])

\* every event the scheduler has emitted has reached its listener
AllHandled == events.submitted = {} /\ events.missed = {}

\* C35: whenever every emitted event has been handled, running_jobs is the
\* set of the jobs being executed.
C35_RunningIsExecuting == AllHandled => running_jobs = Executing

\* C39: no id is in running_jobs and in missed_jobs at once.
C39_RunningAndMissedDisjoint == running_jobs \cap missed_jobs = {}
\* each set holds an id, the submitted event of one job having been handled
\* after the missed event of the other
C39_Witness ==
    /\ running_jobs # {} /\ missed_jobs # {}
    /\ ev.kind = "submitted" /\ ev.missed # {}


\* the invocations of optim_charge_battery under way, by inverter
Comparing(inv) ==
    {id \in CbIds : Inv(id) = inv /\ threads[id].pc \in {"cb_cmp1", "cb_cmp2"}}
CbUnderWay(inv) ==
    {id \in CbIds : Inv(id) = inv /\ threads[id].pc # "idle"}

\* C36: device actions of different inverters do not interfere.  An
\* optim_charge_battery that has read battery_charge_current and is about
\* to compare it, while it is the only action under way for its inverter,
\* finds in self.setting_value the value it read from its own inverter,
\* whatever the actions of the other inverters do in between.
C36_ComparesOwnInverter ==
    \A inv \in InverterIds :
       (Comparing(inv) # {} /\ CbUnderWay(inv) = Comparing(inv)
           /\ Cardinality(Comparing(inv)) = 1)
          => setting_value = Some(device[inv])


\* C37: the daily cycle keeps itself going.  From the moment optim_main has
\* scheduled the first judge, and as long as no termination signal has
\* come, an optim_judge job is pending or being executed, however the
\* cycles end.
C37_JudgePendingOrExecuting ==
    (main \in MainLoop /\ ~shutdown.signal)
       => IsSet(jobs[JudgeId]) \/ JudgeId \in Executing


\* the pending SOC check of an inverter
PendingSocCheck(inv) == Val(jobs[SocId(inv)])

\* C38: the order of the plan.  Every pending optim_soc_check_inv_<inv>,
\* scheduled by _optim_strategy or by an optim_soc_check that scheduled
\* itself again, has a run date at least 180 seconds before the optim_date
\* of the current plan, and so before the pending optim_charge_battery of
\* its inverter.
C38_SocCheckPrecedesOptimDate ==
    \A inv \in InverterIds :
       IsSet(jobs[SocId(inv)]) =>
          /\ IsSet(optim_date) =>
                PendingSocCheck(inv).run_date + SocLeadTime <= Val(optim_date)
          /\ IsSet(jobs[ChargeId(inv)]) =>
                PendingSocCheck(inv).run_date + SocLeadTime
                   <= Val(jobs[ChargeId(inv)]).run_date
\* a SOC check pending exactly 180 s before optim_date, and one that an
\* optim_soc_check scheduled for itself
C38_Witness ==
    \E inv \in InverterIds :
       /\ IsSet(jobs[SocId(inv)]) /\ IsSet(optim_date)
       /\ IsSet(jobs[ChargeId(inv)])
       /\ \/ PendingSocCheck(inv).run_date + SocLeadTime = Val(optim_date)
          \/ /\ last_soc.ran /\ last_soc.scheduled /\ last_soc.inv = inv
             /\ last_soc.job_after = jobs[SocId(inv)]


\* C40: the weather adapter never raises.  Whatever the sunrise API and the
\* forecast API answer, a forecast with fewer samples than the span from its
\* first sample to sunset + 1 h asks for included, get_weather_data returns
\* a window or failure.
C40_WeatherNeverRaises == last_weather.ran => last_weather.raised = ""
====
